---- MODULE Spec2Model ----
(***************************************************************************)
(* InstaBrief backend: the translation waterfall (translate_text) and the  *)
(* document upload pipeline (upload_document) of app/routes/documents.py,  *)
(* modelled as state machines over the single asyncio event-loop thread.   *)
(***************************************************************************)
EXTENDS Integers, Sequences, FiniteSets, TLC

VARIABLES
    \* ---- the event loop (shared by every handler of the process)
    loop_blocked_by,    \* "none", or the handler whose synchronous call holds the loop thread
    other_steps,        \* steps taken so far by the handlers of other requests
    \* ---- translate_text
    text,               \* request.text as the lengths of the pieces of text.split('. ')
    tr_pc,              \* "ready" (about to call a provider), "calling", "done"
    tr_stage,           \* the provider stage being tried, 1..4
    chunks,             \* lengths of the chunks of the current stage still to be sent
    translated_chunks,  \* the pieces gathered by the current stage
    calls,              \* per stage, the number of HTTP calls made
    replies,            \* per stage, the outcomes of its HTTP calls, in order
    attempts,           \* the stages entered, in order
    tr_response,        \* the response the client sees
    \* ---- upload_document
    file_ext,           \* os.path.splitext(file.filename)[1].lower()
    file_text,          \* the text the file holds (what its extraction routine reads)
    summary_length,     \* the form field summary_length, a percentage
    summarizer_available, \* whether get_summarizer_service() yields a service
    up_pc,              \* where the handler is
    worker,             \* the call on the worker thread: [state, fn, result]
    clock,              \* seconds since the running wait_for-wrapped step began (0 outside one)
    abs_started,        \* clock when the abstractive call was submitted (0 outside it)
    text_content,       \* the extracted text
    extractive_summary,
    abstractive_summary,
    tags,
    invoked,            \* the routines and services called so far by this request
    events,             \* what went wrong so far in this request
    documents,          \* the documents collection
    up_response,        \* the response the client sees
    \* ---- generate_summary (the percentage-driven summary of documents.py)
    gs_pc,              \* "ready", "done" ("idle" when no call is made)
    gs_type,            \* summary_type
    gs_length,          \* length, a percentage
    gs_words,           \* total_words of the stripped text
    gs_sentences,       \* total_sentences of the stripped text
    gs_target,          \* target_words (extractive) or target_sentences (abstractive)
    gs_result,          \* the summary returned: [kind, units]
    \* ---- KeywordExtractor.extract_keywords
    kw_pc,              \* "start", "select", "dispatch", "done" ("idle" when no call is made)
    kw_text,            \* the text: [chars, candidates, sentences]
    kw_num,             \* num_keywords
    kw_method,          \* method
    kw_libs,            \* which of keybert_model, YAKE, sklearn and NLTK are there
    kw_called,          \* the _extract_* methods run so far
    kw_failed,          \* whether the method that ran raised
    kw_result,          \* len() of the list returned
    \* ---- generate_tags and the tag step of upload_document
    tg_pc,              \* "start", "generated", "done" ("idle" when no call is made)
    tg_stem,            \* the tags the filename yields before its extension
    tg_ext,             \* the extension of the filename ("" when it has none)
    tg_business,        \* the business keywords found in the text
    tg_keywords,        \* the titled keywords of the extractor
    tg_raised,          \* whether keyword extraction raised
    tg_order,           \* the order list(set(...)) yields
    tg_generated,       \* the list generate_tags returned
    tg_tags,            \* the tags of the upload
    \* ---- users and articles (routes/users.py, routes/articles.py, storage.py)
    users,              \* the users collection: per user id, [exists, auto]
    articles,           \* the articles collection: per article id, the stored document
    next_article,       \* the number of article ids handed out so far
    deleted_users,      \* the users whose delete_me has completed
    requests,           \* the requests served so far
    \* ---- text to speech (services/tts.py and text_to_speech of documents.py)
    tts_entry,          \* "endpoint" (POST /text-to-speech) or "service" (synthesize called)
    tts_text,           \* the text, by its kind
    tts_lang,           \* the language requested
    tts_slow,           \* slow
    tts_pc,             \* where the call is
    tts_attempts,       \* the calls of synthesize_gtts so far: [lang, outcome]
    tts_result,         \* what synthesize came to: "none", "audio", "ValueError", "Exception"
    tts_response,       \* the HTTP status of the endpoint (0 when none)
    \* ---- the text cleaner (clean_extracted_text and its helpers, documents.py)
    cl_fn,              \* the function called
    cl_text,            \* the input text, as the pieces of text.split('. ')
    cl_pc,              \* "start", "once" (cleaned), "twice" (cleaned again)
    cl_once,            \* the function applied to the input
    cl_twice,           \* the function applied to its own output
    \* ---- extract_pdf_text and extract_pdf_text_pypdf2 (documents.py)
    pdf_fitz,           \* PyMuPDF on this file: "missing", "raises", or the words it reads
    pdf_pypdf2,         \* PyPDF2 on this file: "missing", "raises", or the words it reads
    pdf_pc,             \* where the call is
    pdf_attempts,       \* the extractors run so far, in order
    pdf_result,         \* what extract_pdf_text came to
    \* ---- the service objects of the document routes (documents.py 60-93, 719)
    svc_imported,       \* per lazy service, whether its class was imported
    svc_global,         \* _storage, _summarizer_service: 0 for None, else the instance
    svc_built,          \* per service, the instances constructed so far
    svc_calls,          \* the calls of a getter or constructor so far
    \* ---- SummarizerService.generate_multilingual_summary (summarizer.py)
    ml_text,            \* text
    ml_max_length,      \* max_length
    ml_type,            \* summary_type
    ml_ai,              \* what the AI summarizer does: "ai_ok", "ai_raised", "ai_unavailable"
    ml_pc,              \* "ready" or "done"
    ml_result,          \* the dictionary returned: its two summaries
    \* ---- concurrent get_article and update_article on one id (articles.py)
    race_kind,          \* per request, "update" or "get"
    race_pc,            \* per request, the database step it is at
    race_status,        \* per request, the HTTP status (0 while it runs)
    race_stored,        \* the documents stored under the id, each by the request whose payload it holds
    \* ---- register, OAuth sign-in and update_me (auth.py, users.py)
    reg_users,          \* the users collection: the email of each record, in insertion order
    reg_kind,           \* per request, "register", "oauth" or "update_me"
    reg_email,          \* per request, the email it carries
    reg_pc,             \* per request, the database step it is at
    reg_status,         \* per request, the HTTP status (0 while it runs)
    \* ---- get_document after an upload (documents.py 792-799)
    get_status          \* the HTTP status of the get_document that follows (0 when none)

tvars == <<text, tr_pc, tr_stage, chunks, translated_chunks, calls, replies,
           attempts, tr_response>>
uvars == <<file_ext, file_text, summary_length, summarizer_available, up_pc, worker,
           clock, abs_started, text_content, extractive_summary, abstractive_summary,
           tags, invoked, events, documents, up_response>>
lvars == <<loop_blocked_by, other_steps>>
gvars == <<gs_pc, gs_type, gs_length, gs_words, gs_sentences, gs_target, gs_result>>
kvars == <<kw_pc, kw_text, kw_num, kw_method, kw_libs, kw_called, kw_failed, kw_result>>
gtvars == <<tg_pc, tg_stem, tg_ext, tg_business, tg_keywords, tg_raised, tg_order,
            tg_generated, tg_tags>>
avars == <<users, articles, next_article, deleted_users, requests>>
ttsvars == <<tts_entry, tts_text, tts_lang, tts_slow, tts_pc, tts_attempts, tts_result,
             tts_response>>
clvars == <<cl_fn, cl_text, cl_pc, cl_once, cl_twice>>
pdfvars == <<pdf_fitz, pdf_pypdf2, pdf_pc, pdf_attempts, pdf_result>>
svcvars == <<svc_imported, svc_global, svc_built, svc_calls>>
mlvars == <<ml_text, ml_max_length, ml_type, ml_ai, ml_pc, ml_result>>
racevars == <<race_kind, race_pc, race_status, race_stored>>
regvars == <<reg_users, reg_kind, reg_email, reg_pc, reg_status>>
getvars == <<get_status>>
xvars == <<pdfvars, svcvars, mlvars, racevars, regvars, getvars>>
svars == <<gvars, kvars, gtvars, avars, ttsvars, clvars, xvars>>
vars == <<lvars, tvars, uvars, svars>>

----------------------------------------------------------------------------
\* Bounds of the model

MaxSentences == 2
MaxOtherSteps == 1

\* Lengths of the pieces text.split('. ') yields
SentenceLens == {200, 900, 1600}

----------------------------------------------------------------------------
\* translate_text: the text and its chunking

LIBRE_DIRECT_LIMIT == 2000
LIBRE_CHUNK_SIZE == 1500
MYMEMORY_CHUNK_SIZE == 400

Texts == UNION { [1..n -> SentenceLens] : n \in 1..MaxSentences }

RECURSIVE SumLens(_)
SumLens(s) == IF s = <<>> THEN 0 ELSE Head(s) + SumLens(Tail(s))

\* len(request.text): the pieces joined by '. '
TextLen(t) == SumLens(t) + 2 * (Len(t) - 1)

\* The chunk loop of translate_libretranslate_chunks and translate_chunks:
\* cur is len(current_chunk), acc the lengths of the chunks appended so far.
\* current_chunk always ends with '. ', so chunk.strip() drops one character.
RECURSIVE ChunkLoop(_, _, _, _)
ChunkLoop(sentences, chunk_size, cur, acc) ==
    IF sentences = <<>>
    THEN IF cur > 0 THEN Append(acc, cur - 1) ELSE acc
    ELSE LET s == Head(sentences) IN
         IF cur + s + 2 <= chunk_size
         THEN ChunkLoop(Tail(sentences), chunk_size, cur + s + 2, acc)
         ELSE ChunkLoop(Tail(sentences), chunk_size, s + 2,
                        IF cur > 0 THEN Append(acc, cur - 1) ELSE acc)

SplitChunks(t, chunk_size) == ChunkLoop(t, chunk_size, 0, <<>>)

----------------------------------------------------------------------------
\* translate_text: the stages

GOOGLE == 1
MYMEMORY == 2
LIBRETRANSLATE == 3
MYMEMORY_CHUNKS == 4
Stages == GOOGLE..MYMEMORY_CHUNKS

\* What one HTTP call to a provider comes to:
\*   "exception"  requests raised (connection error, timeout, HTTP error status, bad JSON)
\*   "empty"      the call returned, with no (or a blank) translation in it
\*   "bad_status" MyMemory answered with responseStatus other than 200
\*   "ok"         the call returned a non-blank translation
Outcomes(stage) ==
    IF stage \in {MYMEMORY, MYMEMORY_CHUNKS}
    THEN {"exception", "empty", "bad_status", "ok"}
    ELSE {"exception", "empty", "ok"}

\* The chunks a stage sends: stages 1 and 2 send the whole text, stage 3 the
\* whole text unless it is longer than 2000 characters, stage 4 always chunks.
StageChunks(stage, t) ==
    CASE stage = LIBRETRANSLATE /\ TextLen(t) > LIBRE_DIRECT_LIMIT -> SplitChunks(t, LIBRE_CHUNK_SIZE)
      [] stage = MYMEMORY_CHUNKS -> SplitChunks(t, MYMEMORY_CHUNK_SIZE)
      [] OTHER -> <<TextLen(t)>>

IsChunked(stage, t) ==
    \/ stage = MYMEMORY_CHUNKS
    \/ stage = LIBRETRANSLATE /\ TextLen(t) > LIBRE_DIRECT_LIMIT

\* One gathered piece: a translation, or the chunk itself kept untranslated
Piece(stage, outcome, chunk) ==
    IF outcome = "ok"
    THEN [by |-> stage, translated |-> TRUE, len |-> chunk]
    ELSE [by |-> stage, translated |-> FALSE, len |-> chunk]

NoResponse == [status |-> 0, detail |-> "", translated_text |-> <<>>]

\* return TranslationResponse(translated_text=translated_text)
Success(pieces) == [status |-> 200, detail |-> "", translated_text |-> pieces]

\* The handlers of the outer try for an exception raised in its body; the body
\* raises HTTPException(503) after the four stages, and HTTPException is an
\* Exception, so the last handler takes it.
OuterExcept(exc) ==
    CASE exc.type = "RequestException" ->
           [status |-> 500, detail |-> "Translation service error", translated_text |-> <<>>]
      [] OTHER ->
           [status |-> 500, detail |-> "Translation failed", translated_text |-> <<>>]

AllServicesFailed ==
    OuterExcept([type |-> "HTTPException", status_code |-> 503,
                 detail |-> "All translation services unavailable"])

----------------------------------------------------------------------------
\* translate_text: the actions

TranslateInit ==
    /\ text \in Texts
    /\ tr_pc = "ready"
    /\ tr_stage = GOOGLE
    /\ chunks = StageChunks(GOOGLE, text)
    /\ translated_chunks = <<>>
    /\ calls = [s \in Stages |-> 0]
    /\ replies = [s \in Stages |-> <<>>]
    /\ attempts = <<GOOGLE>>
    /\ tr_response = NoResponse

\* requests.get / requests.post, called on the event-loop thread
CallProvider ==
    /\ tr_pc = "ready"
    /\ loop_blocked_by = "none"
    /\ tr_pc' = "calling"
    /\ calls' = [calls EXCEPT ![tr_stage] = @ + 1]
    /\ loop_blocked_by' = "translate_text"
    /\ UNCHANGED <<other_steps, text, tr_stage, chunks, translated_chunks, replies,
                   attempts, tr_response, uvars, svars>>

\* Mutation of Advance: a failure of MyMemory skips LibreTranslate
AdvanceSkipsLibre(stage) ==
    LET next == IF stage = MYMEMORY THEN MYMEMORY_CHUNKS ELSE stage + 1 IN
    IF stage = MYMEMORY_CHUNKS
    THEN /\ tr_pc' = "done"
         /\ tr_response' = AllServicesFailed
         /\ UNCHANGED <<tr_stage, chunks, attempts>>
         /\ translated_chunks' = <<>>
    ELSE /\ tr_pc' = "ready"
         /\ tr_stage' = next
         /\ chunks' = StageChunks(next, text)
         /\ attempts' = Append(attempts, next)
         /\ translated_chunks' = <<>>
         /\ UNCHANGED tr_response

\* The handler moves on to the next stage, or past the last one
Advance(stage) ==
    IF stage = MYMEMORY_CHUNKS
    THEN /\ tr_pc' = "done"
         /\ tr_response' = AllServicesFailed
         /\ UNCHANGED <<tr_stage, chunks, attempts>>
         /\ translated_chunks' = <<>>
    ELSE /\ tr_pc' = "ready"
         /\ tr_stage' = stage + 1
         /\ chunks' = StageChunks(stage + 1, text)
         /\ attempts' = Append(attempts, stage + 1)
         /\ translated_chunks' = <<>>
         /\ UNCHANGED tr_response

Return(pieces) ==
    /\ tr_pc' = "done"
    /\ tr_response' = Success(pieces)
    /\ translated_chunks' = pieces
    /\ UNCHANGED <<tr_stage, chunks, attempts>>

\* Mutation of DirectReply: the translation is dropped and the next stage is tried
DirectReplyFallsThrough(stage, outcome) == Advance(stage)

\* A stage that sends the whole text in one call returns its translation or fails
DirectReply(stage, outcome) ==
    IF outcome = "ok"
    THEN Return(<<Piece(stage, outcome, Head(chunks))>>)
    ELSE Advance(stage)

\* A chunking stage: an exception fails the stage; otherwise the piece (or the
\* chunk itself, when the reply holds no translation) is gathered, and after
\* the last chunk the joined pieces are returned when not blank
ChunkReply(stage, outcome) ==
    IF outcome = "exception"
    THEN Advance(stage)
    ELSE LET pieces == Append(translated_chunks, Piece(stage, outcome, Head(chunks))) IN
         IF Len(chunks) > 1
         THEN /\ tr_pc' = "ready"
              /\ chunks' = Tail(chunks)
              /\ translated_chunks' = pieces
              /\ UNCHANGED <<tr_stage, attempts, tr_response>>
         ELSE IF pieces # <<>> THEN Return(pieces) ELSE Advance(stage)

Reply(stage, outcome) ==
    /\ tr_pc = "calling"
    /\ tr_stage = stage
    /\ loop_blocked_by' = "none"
    /\ replies' = [replies EXCEPT ![stage] = Append(@, outcome)]
    /\ IF IsChunked(stage, text) THEN ChunkReply(stage, outcome) ELSE DirectReply(stage, outcome)
    /\ UNCHANGED <<other_steps, text, calls, uvars, svars>>

GoogleReply == \E o \in Outcomes(GOOGLE) : Reply(GOOGLE, o)
MyMemoryReply == \E o \in Outcomes(MYMEMORY) : Reply(MYMEMORY, o)
LibreTranslateReply == \E o \in Outcomes(LIBRETRANSLATE) : Reply(LIBRETRANSLATE, o)
MyMemoryChunkReply == \E o \in Outcomes(MYMEMORY_CHUNKS) : Reply(MYMEMORY_CHUNKS, o)

----------------------------------------------------------------------------
\* upload_document: the inputs

FILE_PROCESSING_TIMEOUT == 30
AI_PROCESSING_TIMEOUT == 45
ABSTRACTIVE_TIMEOUT == 20
AI_TOTAL_EXTRA == 10
MIN_TEXT_CHARS == 50

\* Seconds by which one Tick moves the clock
TickSeconds == 5

allowed_types == {".pdf", ".docx", ".txt", ".pptx"}
Exts == allowed_types \cup {".exe"}
Offloaded == {".pdf", ".docx", ".pptx"}
SummaryLengths == {10, 50, 100}

\* A text, by what the pipeline reads of it: the length of text.strip(), the
\* number of words of text.split() and the number of sentences the tokenizer finds
Text(kind, chars, words, sentences) ==
    [kind |-> kind, chars |-> chars, words |-> words, sentences |-> sentences]

NoText == Text("none", 0, 0, 0)

\* The texts a file may hold: an empty file, 'hello world', a short line of
\* six words, a page, a long document, and one word repeated 500 times
FileTexts ==
    { Text("extracted", 0, 0, 0), Text("extracted", 11, 2, 1),
      Text("extracted", 30, 6, 1), Text("extracted", 600, 100, 8),
      Text("extracted", 6000, 1000, 80), Text("extracted", 2499, 500, 1) }

\* extract_pdf_text returns five words or more (or its own paragraph about
\* images), the other routines whatever the file holds
TextsOf(ext) ==
    IF ext = ".pdf" THEN { t \in FileTexts : t.words >= 5 } ELSE FileTexts

ExtractRoutine(ext) ==
    CASE ext = ".pdf" -> "extract_pdf_text"
      [] ext = ".docx" -> "extract_docx_text"
      [] ext = ".pptx" -> "extract_pptx_text"
      [] OTHER -> "none"

\* The paragraph returned in place of the text when extraction fails
\* ("PDF Extraction Error for ...": about 420 characters, 67 words)
Placeholder(ext) == Text("placeholder", 420, 67, 7)

\* Mutation of ValidatedText: the result is passed on without the length check
ValidatedTextUnchecked(ext, state, result) == result

\* What extract_text_with_timeout returns for an offloaded routine that has
\* ended: the text when it is 50 characters or more, the placeholder when the
\* routine raised or the text is shorter
ValidatedText(ext, state, result) ==
    IF state = "raised" \/ result.chars < MIN_TEXT_CHARS
    THEN Placeholder(ext)
    ELSE result

Max(a, b) == IF a >= b THEN a ELSE b
Min(a, b) == IF a <= b THEN a ELSE b

\* max_length, from the text length and the percentage
MaxLength(t, p) ==
    LET base_length == Max(150, Min(500, t.chars \div 10)) IN
    Max(100, Min(800, (base_length * p * 2) \div 100))

----------------------------------------------------------------------------
\* upload_document: the summaries

Summary(kind, src, param) == [kind |-> kind, src |-> src, param |-> param]

NoSummary == Summary("none", NoText, 0)

\* SummarizerService.generate_summary: '' for blank text, the text itself when
\* it has two sentences or fewer, TextRank sentences otherwise
GenerateSummary(t, max_length) ==
    CASE t.chars = 0 -> Summary("empty", t, 0)
      [] t.chars > 0 /\ t.sentences <= 2 -> Summary("text", t, 0)
      [] OTHER -> Summary("textrank", t, max_length)

\* generate_fallback_summary: the stripped text when it has no more than
\* target_words words, its first target_words words otherwise
GenerateFallbackSummary(t, max_length) ==
    LET target_words == Max(Min(Min(max_length \div 4, t.words \div 5), 100), 20) IN
    IF t.words <= target_words
    THEN Summary("text_stripped", t, 0)
    ELSE Summary("truncated", t, target_words)

\* What generate_multilingual_summary(..., summary_type="both") returns as
\* 'abstractive_summary': '' for blank text; the AI summary; the first
\* min(max_length // 5, words // 4) words followed by '...' when the AI model
\* raised inside summarize_multilingual, which catches the exception itself;
\* its own extractive summary when the multilingual summarizer is missing or
\* could not be constructed
MultilingualAbstractive(t, max_length, ai) ==
    CASE t.chars = 0 -> Summary("empty", t, 0)
      [] t.chars > 0 /\ ai = "ai_ok" -> Summary("ai", t, max_length)
      [] t.chars > 0 /\ ai = "ai_raised" ->
           Summary("ai_truncated", t, Min(max_length \div 5, t.words \div 4))
      [] OTHER -> GenerateSummary(t, max_length)

\* What an extraction routine returns of the text it read: extract_pdf_text and
\* extract_pdf_text_pypdf2 return clean_extracted_text(extracted_text) (lines
\* 1139 and 1171), extract_docx_text and extract_pptx_text return text.strip()
ExtractedBy(fn, t) ==
    IF fn = "extract_pdf_text" THEN [t EXCEPT !.kind = "cleaned"] ELSE t

\* The result the call on the worker thread may end with
WorkerOutcomes(fn) ==
    CASE fn \in {"extract_pdf_text", "extract_docx_text", "extract_pptx_text"} ->
           { [state |-> "raised", fn |-> fn, result |-> NoText],
             [state |-> "returned", fn |-> fn, result |-> ExtractedBy(fn, file_text)] }
      [] fn = "generate_summary" ->
           { [state |-> "raised", fn |-> fn, result |-> NoSummary],
             [state |-> "returned", fn |-> fn,
              result |-> GenerateSummary(text_content, MaxLength(text_content, summary_length))] }
      [] fn = "generate_multilingual_summary" ->
           { [state |-> "raised", fn |-> fn, result |-> NoSummary] } \cup
           { [state |-> "returned", fn |-> fn,
              result |-> MultilingualAbstractive(text_content,
                             MaxLength(text_content, summary_length), ai)] :
             ai \in {"ai_ok", "ai_raised", "ai_unavailable"} }
      [] OTHER -> {}

Idle == [state |-> "idle", fn |-> "none", result |-> NoText]
Running(fn) == [state |-> "running", fn |-> fn, result |-> NoText]
Finished == worker.state \in {"returned", "raised"}

----------------------------------------------------------------------------
\* upload_document: the responses

NoUploadResponse ==
    [status |-> 0, error |-> "none", id |-> "none", extractive |-> NoSummary,
     abstractive |-> NoSummary, tags |-> <<>>]

\* return {"error": ...}: a plain dict, which FastAPI sends with status 200
ErrorResponse(message) ==
    [status |-> 200, error |-> message, id |-> "none", extractive |-> NoSummary,
     abstractive |-> NoSummary, tags |-> <<>>]

DocumentResponse(id) ==
    [status |-> 200, error |-> "none", id |-> id, extractive |-> extractive_summary,
     abstractive |-> abstractive_summary, tags |-> tags]

----------------------------------------------------------------------------
\* upload_document: the actions

UploadInit ==
    /\ file_ext \in Exts
    /\ file_text \in TextsOf(file_ext)
    /\ summary_length \in SummaryLengths
    /\ summarizer_available \in BOOLEAN
    /\ up_pc = "start"
    /\ worker = Idle
    /\ clock = 0
    /\ abs_started = 0
    /\ text_content = NoText
    /\ extractive_summary = NoSummary
    /\ abstractive_summary = NoSummary
    /\ tags = <<>>
    /\ invoked = {}
    /\ events = {}
    /\ documents = {}
    /\ up_response = NoUploadResponse

\* No upload is in progress
UploadIdle ==
    /\ file_ext = ".txt"
    /\ file_text = Text("extracted", 0, 0, 0)
    /\ summary_length = 10
    /\ summarizer_available = TRUE
    /\ up_pc = "idle"
    /\ worker = Idle
    /\ clock = 0
    /\ abs_started = 0
    /\ text_content = NoText
    /\ extractive_summary = NoSummary
    /\ abstractive_summary = NoSummary
    /\ tags = <<>>
    /\ invoked = {}
    /\ events = {}
    /\ documents = {}
    /\ up_response = NoUploadResponse

uinputs == <<file_ext, file_text, summary_length, summarizer_available>>

\* Validate file type, then await file.read()
ValidateFileType ==
    /\ up_pc = "start"
    /\ loop_blocked_by = "none"
    /\ IF file_ext \notin allowed_types
       THEN /\ up_pc' = "done"
            /\ up_response' = ErrorResponse("Unsupported file type")
       ELSE /\ up_pc' = "extract"
            /\ UNCHANGED up_response
    /\ UNCHANGED <<lvars, tvars, svars, uinputs, worker, clock, abs_started, text_content,
                   extractive_summary, abstractive_summary, tags, invoked, events, documents>>

\* .txt: file_content.decode(...), on the event-loop thread, with no length check
DecodeText ==
    /\ up_pc = "extract"
    /\ file_ext = ".txt"
    /\ loop_blocked_by = "none"
    /\ text_content' = file_text
    /\ up_pc' = "summarize"
    /\ UNCHANGED <<lvars, tvars, svars, uinputs, worker, clock, abs_started, extractive_summary,
                   abstractive_summary, tags, invoked, events, documents, up_response>>

\* executor.submit(extract_..._text, file_content) and the wait_for that follows
SubmitExtraction ==
    /\ up_pc = "extract"
    /\ file_ext \in Offloaded
    /\ loop_blocked_by = "none"
    /\ worker' = Running(ExtractRoutine(file_ext))
    /\ invoked' = invoked \cup {ExtractRoutine(file_ext)}
    /\ clock' = 0
    /\ up_pc' = "extract_await"
    /\ UNCHANGED <<lvars, tvars, svars, uinputs, abs_started, text_content, extractive_summary,
                   abstractive_summary, tags, events, documents, up_response>>

\* The worker thread ends its call, whatever the event loop is doing
WorkerEnds ==
    /\ worker.state = "running"
    /\ worker' \in WorkerOutcomes(worker.fn)
    /\ UNCHANGED <<lvars, tvars, svars, uinputs, up_pc, clock, abs_started, text_content,
                   extractive_summary, abstractive_summary, tags, invoked, events,
                   documents, up_response>>

\* The deadline of the timer the handler is waiting under, if any
TimerDue ==
    \/ up_pc = "extract_await" /\ clock >= FILE_PROCESSING_TIMEOUT
    \/ up_pc = "ext_await" /\ clock >= AI_PROCESSING_TIMEOUT
    \/ up_pc = "abs_await" /\ clock >= abs_started + ABSTRACTIVE_TIMEOUT
    \/ up_pc = "abs_await" /\ clock >= AI_PROCESSING_TIMEOUT + AI_TOTAL_EXTRA

\* Time passes while the handler awaits a future; a timer that is due fires first
Tick ==
    /\ up_pc \in {"extract_await", "ext_await", "abs_await"}
    /\ worker.state = "running"
    /\ ~TimerDue
    /\ clock' = clock + TickSeconds
    /\ UNCHANGED <<lvars, tvars, svars, uinputs, up_pc, worker, abs_started, text_content,
                   extractive_summary, abstractive_summary, tags, invoked, events,
                   documents, up_response>>

\* The awaited extraction future is done within the timeout
ExtractionDone ==
    /\ up_pc = "extract_await"
    /\ Finished
    /\ loop_blocked_by = "none"
    /\ text_content' = ValidatedText(file_ext, worker.state, worker.result)
    /\ events' = events \cup
          (IF worker.state = "raised" THEN {"extraction_raised"}
           ELSE IF worker.result.chars < MIN_TEXT_CHARS THEN {"extraction_short"} ELSE {})
    /\ worker' = Idle
    /\ up_pc' = "summarize"
    /\ clock' = 0
    /\ UNCHANGED <<lvars, tvars, svars, uinputs, abs_started, extractive_summary,
                   abstractive_summary, tags, invoked, documents, up_response>>

\* asyncio.TimeoutError after FILE_PROCESSING_TIMEOUT: future.cancel() cannot
\* cancel a running call, the raise leaves the with block, and the executor's
\* __exit__ is shutdown(wait=True), on the event-loop thread
ExtractionTimeout ==
    /\ up_pc = "extract_await"
    /\ worker.state = "running"
    /\ clock >= FILE_PROCESSING_TIMEOUT
    /\ loop_blocked_by = "none"
    /\ events' = events \cup {"extraction_timeout"}
    /\ up_pc' = "extract_exit"
    /\ loop_blocked_by' = "upload_document"
    /\ UNCHANGED <<other_steps, tvars, svars, uinputs, worker, clock, abs_started, text_content,
                   extractive_summary, abstractive_summary, tags, invoked, documents,
                   up_response>>

\* shutdown(wait=True) returns once the worker has ended; "... timed out" is
\* caught by the except Exception of the same branch, which returns the placeholder
ExtractionExit ==
    /\ up_pc = "extract_exit"
    /\ Finished
    /\ loop_blocked_by' = "none"
    /\ text_content' = Placeholder(file_ext)
    /\ worker' = Idle
    /\ up_pc' = "summarize"
    /\ clock' = 0
    /\ UNCHANGED <<other_steps, tvars, svars, uinputs, abs_started, extractive_summary,
                   abstractive_summary, tags, invoked, events, documents, up_response>>

\* Mutation of FallbackSummaries: only the extractive summary is replaced
FallbackSummariesExtractiveOnly(t, max_length) ==
    [extractive |-> GenerateFallbackSummary(t, max_length),
     abstractive |-> NoSummary]

\* The pair returned when the summarizer is missing, the extractive call
\* raised or timed out, or the whole step timed out
FallbackSummaries(t, max_length) ==
    [extractive |-> GenerateFallbackSummary(t, max_length),
     abstractive |-> GenerateFallbackSummary(t, max_length)]

\* abstractive_summary = extractive_summary, the default and the fallback
AbstractiveDefault(extractive) == extractive

max_length == MaxLength(text_content, summary_length)

UseFallback ==
    /\ extractive_summary' = FallbackSummaries(text_content, max_length).extractive
    /\ abstractive_summary' = FallbackSummaries(text_content, max_length).abstractive

\* generate_summaries_with_timeout up to its first await: without a summarizer
\* it raises and falls back at once, with one it submits generate_summary
StartSummaries ==
    /\ up_pc = "summarize"
    /\ loop_blocked_by = "none"
    /\ IF ~summarizer_available
       THEN /\ UseFallback
            /\ events' = events \cup {"summarizer_unavailable"}
            /\ up_pc' = "tags"
            /\ UNCHANGED <<worker, invoked, clock>>
       ELSE /\ worker' = Running("generate_summary")
            /\ invoked' = invoked \cup {"generate_summary"}
            /\ clock' = 0
            /\ up_pc' = "ext_await"
            /\ UNCHANGED <<extractive_summary, abstractive_summary, events>>
    /\ UNCHANGED <<lvars, tvars, svars, uinputs, abs_started, text_content, tags, documents,
                   up_response>>

\* The extractive future is done within AI_PROCESSING_TIMEOUT: an exception
\* falls back, a result is kept and generate_multilingual_summary is submitted
ExtractiveDone ==
    /\ up_pc = "ext_await"
    /\ Finished
    /\ loop_blocked_by = "none"
    /\ IF worker.state = "raised"
       THEN /\ UseFallback
            /\ events' = events \cup {"extractive_raised"}
            /\ worker' = Idle
            /\ up_pc' = "tags"
            /\ clock' = 0
            /\ UNCHANGED <<invoked, abs_started>>
       ELSE /\ extractive_summary' = worker.result
            /\ abstractive_summary' = AbstractiveDefault(worker.result)
            /\ worker' = Running("generate_multilingual_summary")
            /\ invoked' = invoked \cup {"generate_multilingual_summary"}
            /\ abs_started' = clock
            /\ up_pc' = "abs_await"
            /\ UNCHANGED <<events, clock>>
    /\ UNCHANGED <<lvars, tvars, svars, uinputs, text_content, tags, documents, up_response>>

\* asyncio.TimeoutError after AI_PROCESSING_TIMEOUT; leaving the with block
\* waits for the worker
ExtractiveTimeout ==
    /\ up_pc = "ext_await"
    /\ worker.state = "running"
    /\ clock >= AI_PROCESSING_TIMEOUT
    /\ loop_blocked_by = "none"
    /\ events' = events \cup {"extractive_timeout"}
    /\ up_pc' = "ext_exit"
    /\ loop_blocked_by' = "upload_document"
    /\ UNCHANGED <<other_steps, tvars, svars, uinputs, worker, clock, abs_started, text_content,
                   extractive_summary, abstractive_summary, tags, invoked, documents,
                   up_response>>

\* The worker has ended: "Extractive summarization timed out" reaches the
\* except Exception of generate_summaries_with_timeout
ExtractiveExit ==
    /\ up_pc = "ext_exit"
    /\ Finished
    /\ loop_blocked_by' = "none"
    /\ UseFallback
    /\ worker' = Idle
    /\ up_pc' = "tags"
    /\ clock' = 0
    /\ UNCHANGED <<other_steps, tvars, svars, uinputs, abs_started, text_content, tags,
                   invoked, events, documents, up_response>>

\* The multilingual future is done in time: multilingual_result.get(
\* 'abstractive_summary', extractive_summary), or the extractive summary when it raised
AbstractiveDone ==
    /\ up_pc = "abs_await"
    /\ Finished
    /\ loop_blocked_by = "none"
    /\ IF worker.state = "raised"
       THEN /\ abstractive_summary' = AbstractiveDefault(extractive_summary)
            /\ events' = events \cup {"abstractive_raised"}
       ELSE /\ abstractive_summary' = worker.result
            /\ UNCHANGED events
    /\ worker' = Idle
    /\ up_pc' = "tags"
    /\ clock' = 0
    /\ abs_started' = 0
    /\ UNCHANGED <<lvars, tvars, svars, uinputs, text_content,
                   extractive_summary, tags, invoked, documents, up_response>>

\* asyncio.TimeoutError of the inner wait_for (20 s), caught inside the with block
AbstractiveTimeout ==
    /\ up_pc = "abs_await"
    /\ worker.state = "running"
    /\ clock >= abs_started + ABSTRACTIVE_TIMEOUT
    /\ loop_blocked_by = "none"
    /\ events' = events \cup {"abstractive_timeout"}
    /\ up_pc' = "abs_exit"
    /\ loop_blocked_by' = "upload_document"
    /\ UNCHANGED <<other_steps, tvars, svars, uinputs, worker, clock, abs_started, text_content,
                   extractive_summary, abstractive_summary, tags, invoked, documents,
                   up_response>>

\* The outer wait_for (AI_PROCESSING_TIMEOUT + 10) cancels the step while the
\* multilingual call is awaited; the cancellation leaves the with block too
TotalTimeout ==
    /\ up_pc = "abs_await"
    /\ worker.state = "running"
    /\ clock >= AI_PROCESSING_TIMEOUT + AI_TOTAL_EXTRA
    /\ loop_blocked_by = "none"
    /\ events' = events \cup {"ai_total_timeout"}
    /\ up_pc' = "abs_exit"
    /\ loop_blocked_by' = "upload_document"
    /\ UNCHANGED <<other_steps, tvars, svars, uinputs, worker, clock, abs_started, text_content,
                   extractive_summary, abstractive_summary, tags, invoked, documents,
                   up_response>>

\* The worker has ended: after the inner timeout the extractive summary stands
\* in, after the outer one both summaries are the fallback
AbstractiveExit ==
    /\ up_pc = "abs_exit"
    /\ Finished
    /\ loop_blocked_by' = "none"
    /\ IF "ai_total_timeout" \in events
       THEN UseFallback
       ELSE /\ abstractive_summary' = AbstractiveDefault(extractive_summary)
            /\ UNCHANGED extractive_summary
    /\ worker' = Idle
    /\ up_pc' = "tags"
    /\ clock' = 0
    /\ abs_started' = 0
    /\ UNCHANGED <<other_steps, tvars, svars, uinputs, text_content, tags,
                   invoked, events, documents, up_response>>

----------------------------------------------------------------------------
\* upload_document: tags, save, response

Range(f) == { f[i] : i \in DOMAIN f }

MAX_GENERATED_TAGS == 5
MAX_AI_TAGS == 5
MAX_UPLOAD_TAGS == 8

DefaultTags == <<"Document", "Analysis">>

\* The tags of the model, in one order list(set(...)) may yield them in
TagOrder ==
    <<"Alpha", "Analysis", "Beta", "Delta", "Document", "Docx", "Final", "Gamma",
      "Pdf", "Pptx", "Quarterly", "Report", "Sales", "Txt">>

Reverse(seq) == [i \in 1..Len(seq) |-> seq[Len(seq) + 1 - i]]

\* The orders list(set(...)) is modelled to yield
Orders == {TagOrder, Reverse(TagOrder)}

\* list(set(items)): each item once, in the order of the set
ListOfSet(items, order) ==
    LET Member(x) == x \in Range(items) IN SelectSeq(order, Member)

\* seq[:n]
Take(seq, n) == SubSeq(seq, 1, Min(n, Len(seq)))

\* [kw['keyword'].title() for kw in keywords] for the keywords the extractor
\* may return: none, 'report' and 'Report', and six keywords
AiKeywordLists ==
    { <<>>, <<"Report", "Report">>,
      <<"Alpha", "Beta", "Gamma", "Delta", "Report", "Sales">> }

\* The parts of the filename before its extension that are longer than two
\* characters, titled: 'a', 'report-report', 'document' and
\* 'quarterly_sales_report_final'
StemTags ==
    { <<>>, <<"Report", "Report">>, <<"Document">>,
      <<"Quarterly", "Sales", "Report", "Final">> }

\* The part of the filename its extension yields ('' for a name without one)
ExtTag(ext) ==
    CASE ext = ".pdf" -> <<"Pdf">>
      [] ext = ".docx" -> <<"Docx">>
      [] ext = ".txt" -> <<"Txt">>
      [] ext = ".pptx" -> <<"Pptx">>
      [] OTHER -> <<>>

\* The business keywords found in the text, titled, in the order of the scan
BusinessTags == { <<>>, <<"Analysis">>, <<"Report", "Analysis">> }

\* generate_tags: the distinct tags of the filename and the business keywords,
\* five at most, or the default when there is none
GenerateTags(name_tags, business_tags, order) ==
    LET keywords == name_tags \o business_tags
        unique_tags == Take(ListOfSet(keywords, order), MAX_GENERATED_TAGS)
    IN  IF unique_tags = <<>> THEN DefaultTags ELSE unique_tags

\* Mutation of UploadTags: the two lists are joined without set() and the cut
UploadTagsConcatenated(raised, keywords, filename_tags, order) ==
    IF raised THEN filename_tags ELSE keywords \o filename_tags

\* The tags of the upload: the first five titled keywords joined with
\* generate_tags, each once and eight at most, or generate_tags alone when
\* keyword extraction raised
UploadTags(raised, keywords, filename_tags, order) ==
    IF raised
    THEN filename_tags
    ELSE LET ai_tags == Take(keywords, MAX_AI_TAGS)
             all_tags == Take(ListOfSet(ai_tags \o filename_tags, order), MAX_UPLOAD_TAGS)
         IN  IF all_tags # <<>> THEN all_tags ELSE DefaultTags

\* The stems of the filenames uploaded in the pipeline's model
UploadStems == { <<>>, <<"Quarterly", "Sales", "Report", "Final">> }

TagDocument ==
    /\ up_pc = "tags"
    /\ loop_blocked_by = "none"
    /\ \E raised \in BOOLEAN, keywords \in AiKeywordLists, stem \in UploadStems,
          business \in {<<>>, <<"Report", "Analysis">>}, order \in Orders :
          tags' = UploadTags(raised, keywords,
                             GenerateTags(stem \o ExtTag(file_ext), business, order), order)
    /\ invoked' = invoked \cup {"extract_keywords"}
    /\ up_pc' = "save"
    /\ UNCHANGED <<lvars, tvars, svars, uinputs, worker, clock, abs_started, text_content,
                   extractive_summary, abstractive_summary, events, documents, up_response>>

document_data ==
    [id |-> "uuid", content |-> text_content, extractive |-> extractive_summary,
     abstractive |-> abstractive_summary, tags |-> tags, file_type |-> file_ext]

\* What awaiting get_storage().save_document(document_data) for 10 s comes to
SaveOutcomes == {"inserted", "fallback_id", "raised", "no_storage", "timeout",
                 "timeout_inserted"}

\* The response for each outcome of the save
SaveResponse(outcome) ==
    CASE outcome = "inserted" -> DocumentResponse("object_id")
      [] outcome = "fallback_id" -> DocumentResponse("fallback_id_uuid")
      [] outcome \in {"raised", "no_storage"} -> DocumentResponse("uuid")
      [] OTHER -> ErrorResponse("Database operation timed out")

SaveDocument ==
    /\ up_pc = "save"
    /\ loop_blocked_by = "none"
    /\ \E outcome \in SaveOutcomes :
          /\ documents' = IF outcome \in {"inserted", "timeout_inserted"}
                          THEN documents \cup {document_data} ELSE documents
          /\ invoked' = IF outcome = "no_storage" THEN invoked
                        ELSE invoked \cup {"save_document"}
          /\ events' = IF outcome \in {"timeout", "timeout_inserted"}
                       THEN events \cup {"save_timeout"} ELSE events
          /\ up_response' = SaveResponse(outcome)
    /\ up_pc' = "done"
    /\ UNCHANGED <<lvars, tvars, svars, uinputs, worker, clock, abs_started, text_content,
                   extractive_summary, abstractive_summary, tags>>

----------------------------------------------------------------------------
\* generate_summary(text, summary_type, length) of documents.py, by the number
\* of words and sentences it reads and returns

min_words == 50
max_words == 750
min_sentences == 2
max_sentences == 30
BRIEF_WORDS == 10
SHORT_SUMMARY_PERCENT == 20
SHORT_SUMMARY_CHARS == 500
SHORT_SUMMARY_WORDS == 50

\* The characters of one word of the text
WordChars == 5

Percentages == 10..100
WordCounts == {0, 9, 10, 57, 500, 2000}
SentenceCounts == {1, 40}
SummaryTypes == {"extractive", "abstractive"}

\* int(min_words + (length / 100.0) * (max_words - min_words)), as IEEE doubles
\* compute it for a length in 10..100: 0.57 * 700 is 398.99999999999994, so
\* 57 gives 448; every other length gives the exact 50 + 7 * length
LinearTargetWords(length) ==
    ((min_words * 100 + length * (max_words - min_words)) \div 100)
        - (IF length = 57 THEN 1 ELSE 0)

\* Mutation of TargetWords: the cap at 80% of the document is dropped
TargetWordsUncapped(length, total_words) == LinearTargetWords(length)

\* target_words: the linear target, never more than int(total_words * 0.8)
TargetWords(length, total_words) ==
    Min(LinearTargetWords(length), (total_words * 4) \div 5)

\* target_sentences: int(2 + (length / 100.0) * 28), never more than
\* int(total_sentences * 0.8)
TargetSentences(length, total_sentences) ==
    Min((min_sentences * 100 + length * (max_sentences - min_sentences)) \div 100,
        (total_sentences * 4) \div 5)

\* len(beginning + middle + ending), cut to the target: 40% of the target from
\* the start, 30% from the first third on, the rest from the end, the end
\* section starting no earlier than gap units after the middle one and, when
\* bounded, holding no more than end units
Selected(target, total, gap, bounded) ==
    LET begin == (target * 2) \div 5
        middle == (target * 3) \div 10
        end == target - begin - middle
        middle_start == total \div 3
        middle_end == middle_start + middle
        end_start == Max(total - end, middle_end + gap)
        beginning == Min(begin, total)
        mid == Max(0, Min(middle, total - middle_start))
        rest == Max(0, total - end_start)
        ending == IF bounded THEN Min(end, rest) ELSE rest
    IN  Min(beginning + mid + ending, target)

\* The words of the extractive summary
ExtractiveWords(length, total_words) ==
    LET target == TargetWords(length, total_words)
        picked == IF target >= total_words
                  THEN (total_words * 19) \div 20
                  ELSE Selected(target, total_words, 10, FALSE)
        chars == IF picked = 0 THEN 0 ELSE picked * (WordChars + 1) - 1
    IN  IF length <= SHORT_SUMMARY_PERCENT /\ chars > SHORT_SUMMARY_CHARS
        THEN Min(picked, SHORT_SUMMARY_WORDS)
        ELSE picked

\* The sentences of the abstractive summary
AbstractiveSentences(length, total_sentences) ==
    LET target == TargetSentences(length, total_sentences) IN
    IF target >= total_sentences
    THEN (total_sentences * 19) \div 20
    ELSE Selected(target, total_sentences, 2, TRUE)

NoResult == [kind |-> "none", units |-> 0]

\* What generate_summary returns
SummaryOf(summary_type, length, total_words, total_sentences) ==
    CASE total_words = 0 -> [kind |-> "no_content", units |-> 0]
      [] total_words > 0 /\ total_words < BRIEF_WORDS ->
           [kind |-> "brief", units |-> total_words]
      [] total_words >= BRIEF_WORDS /\ summary_type = "extractive" ->
           [kind |-> "words", units |-> ExtractiveWords(length, total_words)]
      [] OTHER ->
           [kind |-> "sentences", units |-> AbstractiveSentences(length, total_sentences)]

SummaryInit ==
    /\ gs_pc = "ready"
    /\ gs_type \in SummaryTypes
    /\ gs_length \in Percentages
    /\ gs_words \in WordCounts
    /\ gs_sentences \in SentenceCounts
    /\ gs_target = 0
    /\ gs_result = NoResult

SummaryIdle ==
    /\ gs_pc = "idle"
    /\ gs_type = "extractive"
    /\ gs_length = 10
    /\ gs_words = 0
    /\ gs_sentences = 0
    /\ gs_target = 0
    /\ gs_result = NoResult

\* One call of generate_summary
GenerateSummaryCall ==
    /\ gs_pc = "ready"
    /\ gs_pc' = "done"
    /\ gs_target' = IF gs_words < BRIEF_WORDS THEN 0
                    ELSE IF gs_type = "extractive"
                         THEN TargetWords(gs_length, gs_words)
                         ELSE TargetSentences(gs_length, gs_sentences)
    /\ gs_result' = SummaryOf(gs_type, gs_length, gs_words, gs_sentences)
    /\ UNCHANGED <<lvars, tvars, uvars, kvars, gtvars, avars, ttsvars, clvars, xvars, gs_type, gs_length, gs_words, gs_sentences>>

----------------------------------------------------------------------------
\* KeywordExtractor.extract_keywords

MIN_KEYWORD_TEXT == 10

\* A text, by what the extractor reads of it: len(text.strip()), the number of
\* distinct alphabetic non-stopword words longer than two characters, and the
\* number of sentences longer than ten characters
KwText(chars, candidates, sentences) ==
    [chars |-> chars, candidates |-> candidates, sentences |-> sentences]

\* A blank text, 'hello', '1234567890 1234567890', one sentence of prose and
\* a page of prose
KwTexts ==
    { KwText(0, 0, 0), KwText(5, 1, 0), KwText(21, 0, 1), KwText(40, 4, 1),
      KwText(600, 50, 8) }

NumKeywords == {8, 10}
Methods == {"auto", "keybert", "yake", "tfidf", "frequency"}
Libs == [keybert : BOOLEAN, yake : BOOLEAN, sklearn : BOOLEAN, nltk : BOOLEAN]

\* method == "auto": the best available method
AutoMethod(libs) ==
    CASE libs.keybert -> "keybert"
      [] ~libs.keybert /\ libs.yake -> "yake"
      [] ~libs.keybert /\ ~libs.yake /\ libs.sklearn -> "tfidf"
      [] OTHER -> "frequency"

\* The method the dispatch runs
Dispatched(method, libs) ==
    CASE method = "keybert" /\ libs.keybert -> "keybert"
      [] method = "yake" /\ libs.yake -> "yake"
      [] method = "tfidf" /\ libs.sklearn -> "tfidf"
      [] OTHER -> "frequency"

\* _extract_frequency: up to num_keywords unigrams and num_keywords // 2
\* bigrams, the best num_keywords of them
ExtractFrequency(t, num_keywords) ==
    LET unigrams == Min(t.candidates, num_keywords)
        bigrams == Min(Max(t.candidates - 1, 0), num_keywords \div 2)
    IN  Min(unigrams + bigrams, num_keywords)

\* _extract_keybert, _extract_yake, and _extract_tfidf past its sentence
\* test: the keywords of the library, or [] when it raised
LibraryResult(t, num_keywords, outcome) ==
    IF outcome = "raised" THEN 0 ELSE Min(t.candidates, num_keywords)

KeywordsInit ==
    /\ kw_pc = "start"
    /\ kw_text \in KwTexts
    /\ kw_num \in NumKeywords
    /\ kw_method \in Methods
    /\ kw_libs \in Libs
    /\ kw_called = {}
    /\ kw_failed = FALSE
    /\ kw_result = 0

KeywordsIdle ==
    /\ kw_pc = "idle"
    /\ kw_text = KwText(0, 0, 0)
    /\ kw_num = 10
    /\ kw_method = "auto"
    /\ kw_libs = [keybert |-> FALSE, yake |-> FALSE, sklearn |-> FALSE, nltk |-> FALSE]
    /\ kw_called = {}
    /\ kw_failed = FALSE
    /\ kw_result = 0

\* if not text or len(text.strip()) < 10: return []
KwCheckText ==
    /\ kw_pc = "start"
    /\ kw_pc' = IF kw_text.chars < MIN_KEYWORD_TEXT THEN "done" ELSE "select"
    /\ UNCHANGED <<lvars, tvars, uvars, gvars, gtvars, avars, ttsvars, clvars, xvars, kw_text, kw_num, kw_method, kw_libs,
                   kw_called, kw_failed, kw_result>>

KwSelectMethod ==
    /\ kw_pc = "select"
    /\ kw_method' = IF kw_method = "auto" THEN AutoMethod(kw_libs) ELSE kw_method
    /\ kw_pc' = "dispatch"
    /\ UNCHANGED <<lvars, tvars, uvars, gvars, gtvars, avars, ttsvars, clvars, xvars, kw_text, kw_num, kw_libs, kw_called,
                   kw_failed, kw_result>>

KwReturn(method, n, failed) ==
    /\ kw_pc' = "done"
    /\ kw_called' = kw_called \cup method
    /\ kw_failed' = failed
    /\ kw_result' = n
    /\ UNCHANGED <<lvars, tvars, uvars, gvars, gtvars, avars, ttsvars, clvars, xvars, kw_text, kw_num, kw_method, kw_libs>>

KwKeybert ==
    /\ kw_pc = "dispatch"
    /\ Dispatched(kw_method, kw_libs) = "keybert"
    /\ \E outcome \in {"returned", "raised"} :
          KwReturn({"keybert"}, LibraryResult(kw_text, kw_num, outcome), outcome = "raised")

KwYake ==
    /\ kw_pc = "dispatch"
    /\ Dispatched(kw_method, kw_libs) = "yake"
    /\ \E outcome \in {"returned", "raised"} :
          KwReturn({"yake"}, LibraryResult(kw_text, kw_num, outcome), outcome = "raised")

\* _extract_tfidf hands a text of fewer than two sentences to _extract_frequency
KwTfidf ==
    /\ kw_pc = "dispatch"
    /\ Dispatched(kw_method, kw_libs) = "tfidf"
    /\ IF kw_text.sentences < 2
       THEN KwReturn({"tfidf", "frequency"}, ExtractFrequency(kw_text, kw_num), FALSE)
       ELSE \E outcome \in {"returned", "raised"} :
               KwReturn({"tfidf"}, LibraryResult(kw_text, kw_num, outcome),
                        outcome = "raised")

KwFrequency ==
    /\ kw_pc = "dispatch"
    /\ Dispatched(kw_method, kw_libs) = "frequency"
    /\ KwReturn({"frequency"}, ExtractFrequency(kw_text, kw_num), FALSE)

----------------------------------------------------------------------------
\* generate_tags and the tag step of upload_document, on any filename

TagsInit ==
    /\ tg_pc = "start"
    /\ tg_stem \in StemTags
    /\ tg_ext \in allowed_types \cup {""}
    /\ tg_business \in BusinessTags
    /\ tg_keywords \in AiKeywordLists
    /\ tg_raised \in BOOLEAN
    /\ tg_order \in Orders
    /\ tg_generated = <<>>
    /\ tg_tags = <<>>

TagsIdle ==
    /\ tg_pc = "idle"
    /\ tg_stem = <<>>
    /\ tg_ext = ""
    /\ tg_business = <<>>
    /\ tg_keywords = <<>>
    /\ tg_raised = FALSE
    /\ tg_order = TagOrder
    /\ tg_generated = <<>>
    /\ tg_tags = <<>>

\* generate_tags(text, filename)
GenerateTagsCall ==
    /\ tg_pc = "start"
    /\ tg_generated' = GenerateTags(tg_stem \o ExtTag(tg_ext), tg_business, tg_order)
    /\ tg_pc' = "generated"
    /\ UNCHANGED <<lvars, tvars, uvars, gvars, kvars, avars, ttsvars, clvars, xvars, tg_stem, tg_ext, tg_business,
                   tg_keywords, tg_raised, tg_order, tg_tags>>

\* The tag step of an upload, whose filename has an allowed extension
UploadTagsStep ==
    /\ tg_pc = "generated"
    /\ tg_ext \in allowed_types
    /\ tg_tags' = UploadTags(tg_raised, tg_keywords, tg_generated, tg_order)
    /\ tg_pc' = "done"
    /\ UNCHANGED <<lvars, tvars, uvars, gvars, kvars, avars, ttsvars, clvars, xvars, tg_stem, tg_ext, tg_business,
                   tg_keywords, tg_raised, tg_order, tg_generated>>

----------------------------------------------------------------------------
\* Users and articles: update_preferences, create_article, update_article,
\* delete_article, delete_me, StorageService.save_article

MaxArticles == 2
MaxRequests == 4

UserIds == {"u1", "u2"}
ArticleIds == 1..MaxArticles

\* user_doc['preferences'] as save_article reads it: no 'preferences' at all,
\* preferences without 'auto_generate_tags', or the value stored
AutoValues == {"no_preferences", "unset", "true", "false"}

\* The keywords NLPService.extract_keywords finds in title + content
TextKeywords == {0, 3}

NoArticle ==
    [present |-> FALSE, owner_id |-> "none", keywords |-> 0, text_keywords |-> 0,
     creator |-> "none", saved_by |-> "none", opted_out |-> FALSE, updated_by |-> {}]

\* should_generate_tags of save_article(article, user_id)
ShouldGenerateTags(user_id, lookup_error) ==
    IF lookup_error \/ ~users[user_id].exists
    THEN TRUE
    ELSE users[user_id].auto # "false"

\* Whether the record of the user who created the article exists with
\* preferences.auto_generate_tags false, and the lookup reads it
OptedOut(creator, lookup_error) ==
    /\ ~lookup_error
    /\ creator \in UserIds
    /\ users[creator].exists
    /\ users[creator].auto = "false"

\* The document save_article inserts: doc with its keywords set
SaveArticle(doc, user_id, lookup_error) ==
    [doc EXCEPT !.keywords = IF ShouldGenerateTags(user_id, lookup_error)
                             THEN doc.text_keywords ELSE 0,
                !.saved_by = user_id,
                !.opted_out = OptedOut(doc.creator, lookup_error)]

ArticlesInit ==
    /\ users = [u \in UserIds |-> [exists |-> TRUE, auto |-> "no_preferences"]]
    /\ articles = [a \in ArticleIds |-> NoArticle]
    /\ next_article = 0
    /\ deleted_users = {}
    /\ requests = 0

ArticlesIdle ==
    /\ users = [u \in UserIds |-> [exists |-> FALSE, auto |-> "no_preferences"]]
    /\ articles = [a \in ArticleIds |-> NoArticle]
    /\ next_article = 0
    /\ deleted_users = {}
    /\ requests = 0

\* get_current_user found the user of the token
Authenticated(u) == requests < MaxRequests /\ users[u].exists

\* PUT /me/preferences with auto_generate_tags, or with another preference only
UpdatePreferences(u) ==
    /\ Authenticated(u)
    /\ \E payload \in {"true", "false", "other_only"} :
          users' = [users EXCEPT ![u].auto =
                       IF payload = "other_only"
                       THEN (IF @ = "no_preferences" THEN "unset" ELSE @)
                       ELSE payload]
    /\ requests' = requests + 1
    /\ UNCHANGED <<lvars, tvars, uvars, gvars, kvars, gtvars, ttsvars, clvars, xvars, articles, next_article,
                   deleted_users>>

\* POST /articles
CreateArticle(u) ==
    /\ Authenticated(u)
    /\ next_article < MaxArticles
    /\ \E text_keywords \in TextKeywords, lookup_error \in BOOLEAN :
          LET doc == [NoArticle EXCEPT !.present = TRUE, !.owner_id = u, !.creator = u,
                                       !.text_keywords = text_keywords]
          IN  articles' = [articles EXCEPT ![next_article + 1] =
                              SaveArticle(doc, u, lookup_error)]
    /\ next_article' = next_article + 1
    /\ requests' = requests + 1
    /\ UNCHANGED <<lvars, tvars, uvars, gvars, kvars, gtvars, ttsvars, clvars, xvars, users, deleted_users>>

\* update_doc of update_article: the fields of the request and the _id, so
\* the document saved in place of the old one has no owner_id
UpdatedDoc(old, text_keywords, u) ==
    [old EXCEPT !.owner_id = "none", !.text_keywords = text_keywords,
                !.updated_by = @ \cup {u}]

\* PUT /articles/{article_id}: 404 when no article matches; otherwise the
\* article is deleted and update_doc saved under the same _id
UpdateArticle(u) ==
    /\ Authenticated(u)
    /\ \E a \in ArticleIds, text_keywords \in TextKeywords, lookup_error \in BOOLEAN :
          articles' = IF articles[a].present
                      THEN [articles EXCEPT ![a] =
                               SaveArticle(UpdatedDoc(@, text_keywords, u), u, lookup_error)]
                      ELSE articles
    /\ requests' = requests + 1
    /\ UNCHANGED <<lvars, tvars, uvars, gvars, kvars, gtvars, ttsvars, clvars, xvars, users, next_article,
                   deleted_users>>

\* DELETE /articles/{article_id}
DeleteArticle(u) ==
    /\ Authenticated(u)
    /\ \E a \in ArticleIds : articles' = [articles EXCEPT ![a] = NoArticle]
    /\ requests' = requests + 1
    /\ UNCHANGED <<lvars, tvars, uvars, gvars, kvars, gtvars, ttsvars, clvars, xvars, users, next_article,
                   deleted_users>>

\* DELETE /me: the articles whose owner_id is the user, then the user (the
\* feedback documents hold no user_id, so none matches)
DeleteMe(u) ==
    /\ Authenticated(u)
    /\ articles' = [a \in ArticleIds |->
                       IF articles[a].present /\ articles[a].owner_id = u
                       THEN NoArticle ELSE articles[a]]
    /\ users' = [users EXCEPT ![u].exists = FALSE]
    /\ deleted_users' = deleted_users \cup {u}
    /\ requests' = requests + 1
    /\ UNCHANGED <<lvars, tvars, uvars, gvars, kvars, gtvars, ttsvars, clvars, xvars, next_article>>

----------------------------------------------------------------------------
\* Text to speech: MultilingualTTSService.synthesize, synthesize_gtts, and the
\* endpoint text_to_speech

\* '', '   ', a sentence, a text over 5000 characters (synthesized in chunks)
\* and a text over 10000 characters (cut to 10000)
TtsTexts == {"empty", "blank", "short", "long", "huge"}
TtsLangs == {"en", "fr", "sw", "en-US"}

\* not text or not text.strip()
IsBlank(t) == t \in {"empty", "blank"}

\* normalize_language_code
NormalizeLanguageCode(lang) ==
    CASE lang = "en-US" -> "en"
      [] lang \in {"en", "fr"} -> lang
      [] OTHER -> "en"

Attempt(lang, outcome) ==
    [lang |-> lang, normalized |-> NormalizeLanguageCode(lang), outcome |-> outcome]

TtsInit ==
    /\ tts_entry \in {"endpoint", "service"}
    /\ tts_text \in TtsTexts
    /\ tts_lang \in TtsLangs
    /\ tts_slow \in BOOLEAN
    /\ tts_pc = "start"
    /\ tts_attempts = <<>>
    /\ tts_result = "none"
    /\ tts_response = 0

TtsIdle ==
    /\ tts_entry = "service"
    /\ tts_text = "empty"
    /\ tts_lang = "en"
    /\ tts_slow = FALSE
    /\ tts_pc = "idle"
    /\ tts_attempts = <<>>
    /\ tts_result = "none"
    /\ tts_response = 0

ttsinputs == <<tts_entry, tts_text, tts_lang, tts_slow>>

\* text_to_speech: the HTTPException(400) for a blank text is raised inside
\* the try and caught by 'except Exception', which answers 500; for any other
\* text the name tts_service is not defined in the module, and the NameError
\* is answered 500 as well
TextToSpeech ==
    /\ tts_pc = "start"
    /\ tts_entry = "endpoint"
    /\ tts_response' = 500
    /\ tts_pc' = "done"
    /\ UNCHANGED <<lvars, tvars, uvars, gvars, kvars, gtvars, avars, clvars, xvars, ttsinputs,
                   tts_attempts, tts_result>>

\* synthesize: ValueError for a blank text, otherwise on to synthesize_gtts
SynthesizeCheckText ==
    /\ tts_pc = "start"
    /\ tts_entry = "service"
    /\ IF IsBlank(tts_text)
       THEN tts_pc' = "done" /\ tts_result' = "ValueError"
       ELSE tts_pc' = "requested" /\ UNCHANGED tts_result
    /\ UNCHANGED <<lvars, tvars, uvars, gvars, kvars, gtvars, avars, clvars, xvars, ttsinputs,
                   tts_attempts, tts_response>>

TtsReturn(result) ==
    /\ tts_pc' = "done"
    /\ tts_result' = result

TtsGoOn(pc) ==
    /\ tts_pc' = pc
    /\ UNCHANGED tts_result

\* synthesize_gtts(text, lang) called by synthesize: on failure its handler
\* calls synthesize_gtts(text, 'en') when lang != 'en', and raises otherwise,
\* upon which synthesize raises as lang is 'en'
SynthesizeGtts ==
    /\ tts_pc = "requested"
    /\ \E outcome \in {"ok", "failed"} :
          /\ tts_attempts' = Append(tts_attempts, Attempt(tts_lang, outcome))
          /\ IF outcome = "ok" THEN TtsReturn("audio")
             ELSE IF tts_lang # "en" THEN TtsGoOn("nested_english")
             ELSE TtsReturn("Exception")
    /\ UNCHANGED <<lvars, tvars, uvars, gvars, kvars, gtvars, avars, clvars, xvars, ttsinputs,
                   tts_response>>

\* synthesize_gtts(text, 'en') called by the handler of synthesize_gtts: its
\* failure is raised through to the handler of synthesize, which tries
\* English again as lang != 'en'
SynthesizeGttsEnglish ==
    /\ tts_pc = "nested_english"
    /\ \E outcome \in {"ok", "failed"} :
          /\ tts_attempts' = Append(tts_attempts, Attempt("en", outcome))
          /\ IF outcome = "ok" THEN TtsReturn("audio") ELSE TtsGoOn("last_resort")
    /\ UNCHANGED <<lvars, tvars, uvars, gvars, kvars, gtvars, avars, clvars, xvars, ttsinputs,
                   tts_response>>

\* synthesize_gtts(text, 'en') called by the handler of synthesize
SynthesizeLastResort ==
    /\ tts_pc = "last_resort"
    /\ \E outcome \in {"ok", "failed"} :
          /\ tts_attempts' = Append(tts_attempts, Attempt("en", outcome))
          /\ TtsReturn(IF outcome = "ok" THEN "audio" ELSE "Exception")
    /\ UNCHANGED <<lvars, tvars, uvars, gvars, kvars, gtvars, avars, clvars, xvars, ttsinputs,
                   tts_response>>

----------------------------------------------------------------------------
\* The text cleaner: clean_extracted_text, basic_text_cleaning and
\* improve_text_formatting of documents.py.
\*
\* A text is the sequence of the pieces text.split('. ') gives; a piece is the
\* sequence of the lengths of its words (separated by one space), <<>> being
\* the empty piece. The words are lowercase letters and none of the words the
\* patterns of the cleaner name (no digits, capitals, ligatures, hyphens), the
\* first and the last piece hold a word, so the substitutions that act on such
\* a text are the word join of line 886 and the paragraph breaks of Step 8.1
\* with the whitespace clean-up of Step 10.

\* [a-z]{1,3} of line 886: the word joined to the one before it
SHORT_WORD == 3
\* (i + 1) % 3 == 0 of Step 8.1
BREAK_EVERY == 3

\* The longest text, in pieces: four pieces are the least Step 8.1 acts on
MaxPieces == 4

CleanFunctions == {"clean_extracted_text", "basic_text_cleaning", "improve_text_formatting"}

\* 'z', 'zzzz', 'z z', 'z z z', 'zzzz z' and the empty piece (as in 'a. . b')
Pieces == {<<>>, <<1>>, <<4>>, <<1, 1>>, <<1, 1, 1>>, <<4, 1>>}

CleanTexts ==
    {t \in UNION {[1..n -> Pieces] : n \in 1..MaxPieces} :
        t[1] # <<>> /\ t[Len(t)] # <<>>}

\* re.sub(r'\b(\w+) ([a-z]{1,3})\b', r'\1\2', text) on one piece: from the left,
\* a word followed by a word of at most three letters is joined with it, and
\* the scan goes on after the pair
RECURSIVE MergeShortWords(_)
MergeShortWords(p) ==
    IF Len(p) < 2 THEN p
    ELSE IF p[2] <= SHORT_WORD
         THEN <<p[1] + p[2]>> \o MergeShortWords(SubSeq(p, 3, Len(p)))
         ELSE <<p[1]>> \o MergeShortWords(Tail(p))

\* The element '\n\n' Step 8.1 appends: whitespace, no letter
ParagraphBreak == <<0>>

\* Step 8.1: after every third piece but the last, a '\n\n' element of its own
RECURSIVE InsertBreaks(_, _)
InsertBreaks(t, i) ==
    IF i > Len(t) THEN <<>>
    ELSE <<t[i]>>
         \o (IF i % BREAK_EVERY = 0 /\ i < Len(t) THEN <<ParagraphBreak>> ELSE <<>>)
         \o InsertBreaks(t, i + 1)

\* '. '.join(...) and then re.sub(r'\s+', ' ', text) of Step 10: the '\n\n'
\* between two '. ' runs into the space before it, and '. \n\n. ' is left as
\* '. . ', an empty piece
CollapseWhitespace(t) ==
    [i \in 1..Len(t) |-> IF t[i] = ParagraphBreak THEN <<>> ELSE t[i]]

ImproveTextFormatting(t) == CollapseWhitespace(InsertBreaks(t, 1))

\* The substitutions of lines 1098-1102 act on capitals, digits and commas,
\* which these texts do not hold; then improve_text_formatting
BasicTextCleaning(t) == ImproveTextFormatting(t)

\* sent_tokenize is never imported in documents.py: line 954 raises NameError,
\* and the handler of lines 1033-1035 returns basic_text_cleaning(text) on the
\* text as the substitutions before line 954 left it
CleanExtractedText(t) ==
    BasicTextCleaning([i \in 1..Len(t) |-> MergeShortWords(t[i])])

Clean(fn, t) ==
    CASE fn = "clean_extracted_text" -> CleanExtractedText(t)
      [] fn = "basic_text_cleaning" -> BasicTextCleaning(t)
      [] OTHER -> ImproveTextFormatting(t)

CleanInit ==
    /\ cl_fn \in CleanFunctions
    /\ cl_text \in CleanTexts
    /\ cl_pc = "start"
    /\ cl_once = <<>>
    /\ cl_twice = <<>>

CleanIdle ==
    /\ cl_fn = "clean_extracted_text"
    /\ cl_text = <<<<1>>>>
    /\ cl_pc = "idle"
    /\ cl_once = <<>>
    /\ cl_twice = <<>>

\* The function is called on the text
CleanCall ==
    /\ cl_pc = "start"
    /\ cl_once' = Clean(cl_fn, cl_text)
    /\ cl_pc' = "once"
    /\ UNCHANGED <<lvars, tvars, uvars, gvars, kvars, gtvars, avars, ttsvars, xvars, cl_fn,
                   cl_text, cl_twice>>

\* The function is called on what it returned
CleanAgain ==
    /\ cl_pc = "once"
    /\ cl_twice' = Clean(cl_fn, cl_once)
    /\ cl_pc' = "twice"
    /\ UNCHANGED <<lvars, tvars, uvars, gvars, kvars, gtvars, avars, ttsvars, xvars, cl_fn,
                   cl_text, cl_once>>

----------------------------------------------------------------------------
\* extract_pdf_text and extract_pdf_text_pypdf2 of documents.py

\* len(extracted_text.split()) < 5
MIN_PDF_WORDS == 5

\* What an extractor does with the file: it is not installed, it raises on the
\* file, or it reads this many words
ExtractorOutcomes == {"missing", "raises"}
PdfWordCounts == {0, 4, 5, 100, 1000}
ExtractorStates == [kind : ExtractorOutcomes, words : {0}]
                       \cup [kind : {"reads"}, words : PdfWordCounts]

\* extract_pdf_text_pypdf2: raises when PyPDF2 is None (line 1151) or on any
\* error of the reader (line 1173); returns the paragraph about images for
\* fewer than five words, the cleaned text otherwise
Pypdf2Result(p) ==
    CASE p.kind \in ExtractorOutcomes -> "raised"
      [] p.words < MIN_PDF_WORDS -> "image_notice"
      [] OTHER -> "cleaned_text"

PdfInit ==
    /\ pdf_fitz \in ExtractorStates
    /\ pdf_pypdf2 \in ExtractorStates
    /\ pdf_pc = "start"
    /\ pdf_attempts = <<>>
    /\ pdf_result = "none"

PdfIdle ==
    /\ pdf_fitz = [kind |-> "missing", words |-> 0]
    /\ pdf_pypdf2 = [kind |-> "missing", words |-> 0]
    /\ pdf_pc = "idle"
    /\ pdf_attempts = <<>>
    /\ pdf_result = "none"

pdf_frame == <<lvars, tvars, uvars, gvars, kvars, gtvars, avars, ttsvars, clvars,
               svcvars, mlvars, racevars, regvars, getvars, pdf_fitz, pdf_pypdf2>>

\* The try block up to the word count: import fitz, fitz.open, get_text
PdfPrimary ==
    /\ pdf_pc = "start"
    /\ pdf_attempts' = Append(pdf_attempts, "PyMuPDF")
    /\ CASE pdf_fitz.kind = "missing" ->
              pdf_pc' = "except_ImportError" /\ UNCHANGED pdf_result
         [] pdf_fitz.kind = "raises" ->
              pdf_pc' = "except_Exception" /\ UNCHANGED pdf_result
         [] pdf_fitz.words < MIN_PDF_WORDS ->
              pdf_pc' = "try_fallback" /\ UNCHANGED pdf_result
         [] OTHER ->
              pdf_pc' = "done" /\ pdf_result' = "cleaned_text"
    /\ UNCHANGED pdf_frame

\* return extract_pdf_text_pypdf2(file_content) of line 1136, inside the try
\* block: what it raises is caught by the except Exception of line 1145
PdfFallbackInTry ==
    /\ pdf_pc = "try_fallback"
    /\ pdf_attempts' = Append(pdf_attempts, "PyPDF2")
    /\ IF Pypdf2Result(pdf_pypdf2) = "raised"
       THEN pdf_pc' = "except_Exception" /\ UNCHANGED pdf_result
       ELSE pdf_pc' = "done" /\ pdf_result' = Pypdf2Result(pdf_pypdf2)
    /\ UNCHANGED pdf_frame

\* except ImportError: return extract_pdf_text_pypdf2(file_content)
PdfImportErrorFallback ==
    /\ pdf_pc = "except_ImportError"
    /\ pdf_attempts' = Append(pdf_attempts, "PyPDF2")
    /\ pdf_result' = Pypdf2Result(pdf_pypdf2)
    /\ pdf_pc' = "done"
    /\ UNCHANGED pdf_frame

\* except Exception: return extract_pdf_text_pypdf2(file_content)
PdfExceptionFallback ==
    /\ pdf_pc = "except_Exception"
    /\ pdf_attempts' = Append(pdf_attempts, "PyPDF2")
    /\ pdf_result' = Pypdf2Result(pdf_pypdf2)
    /\ pdf_pc' = "done"
    /\ UNCHANGED pdf_frame

----------------------------------------------------------------------------
\* The service objects of the document routes: get_storage and
\* get_summarizer_service (get_tts_service is called by no route), and the
\* KeywordExtractor of upload_document

\* The calls of getters and constructors in one run
MaxServiceCalls == 4

LazyServices == {"storage", "summarizer"}
ServiceNames == LazyServices \cup {"keyword_extractor"}

ServicesInit ==
    /\ svc_imported \in [LazyServices -> BOOLEAN]
    /\ svc_global = [s \in LazyServices |-> 0]
    /\ svc_built = [s \in ServiceNames |-> 0]
    /\ svc_calls = 0

ServicesObjectsIdle ==
    /\ svc_imported = [s \in LazyServices |-> TRUE]
    /\ svc_global = [s \in LazyServices |-> 0]
    /\ svc_built = [s \in ServiceNames |-> 0]
    /\ svc_calls = -1

svc_frame == <<lvars, tvars, uvars, gvars, kvars, gtvars, avars, ttsvars, clvars,
               pdfvars, mlvars, racevars, regvars, getvars, svc_imported>>

\* get_storage, get_summarizer_service: the global is constructed when it is
\* None and the class was imported; a constructor that raises leaves it None.
\* The handlers are coroutines and the getter has no await, so a call is one step
GetService(s, raised) ==
    /\ svc_calls >= 0
    /\ svc_calls < MaxServiceCalls
    /\ svc_calls' = svc_calls + 1
    /\ IF svc_global[s] = 0 /\ svc_imported[s] /\ ~raised
       THEN /\ svc_built' = [svc_built EXCEPT ![s] = @ + 1]
            /\ svc_global' = [svc_global EXCEPT ![s] = svc_built[s] + 1]
       ELSE UNCHANGED <<svc_global, svc_built>>
    /\ UNCHANGED svc_frame

\* get_storage() of upload_document, get_document, download_document,
\* get_document_audio
GetStorage == \E raised \in BOOLEAN : GetService("storage", raised)

\* get_summarizer_service() of get_supported_languages, detect_text_language,
\* create_multilingual_summary, upload_document
GetSummarizerService == \E raised \in BOOLEAN : GetService("summarizer", raised)

\* keyword_extractor = KeywordExtractor() of upload_document: __init__ catches
\* what loading the models raises
NewKeywordExtractor ==
    /\ svc_calls >= 0
    /\ svc_calls < MaxServiceCalls
    /\ svc_calls' = svc_calls + 1
    /\ svc_built' = [svc_built EXCEPT !["keyword_extractor"] = @ + 1]
    /\ UNCHANGED <<svc_frame, svc_global>>

----------------------------------------------------------------------------
\* SummarizerService.generate_multilingual_summary

MultilingualTexts ==
    { Text("extracted", 0, 0, 0), Text("extracted", 11, 2, 1),
      Text("extracted", 600, 100, 8), Text("extracted", 6000, 1000, 80) }
MultilingualMaxLengths == {100, 150, 800}
MultilingualTypes == {"extractive", "abstractive", "both"}
AiStates == {"ai_ok", "ai_raised", "ai_unavailable"}

\* The 'extractive_summary' and 'abstractive_summary' of the dictionary
\* returned, NoSummary for a key that is not set. Blank text: both ''.
\* Otherwise the extractive summary is computed for 'extractive' and 'both'
\* only, and the abstractive one is the AI summary, the truncation
\* summarize_multilingual returns when the model raised inside it, or
\* result.get('extractive_summary', '') when the multilingual summarizer is
\* missing or its construction raised
GenerateMultilingualSummary(t, length_limit, summary_type, ai) ==
    IF t.chars = 0
    THEN [extractive |-> Summary("empty", t, 0), abstractive |-> Summary("empty", t, 0)]
    ELSE LET extractive ==
                 IF summary_type \in {"extractive", "both"}
                 THEN GenerateSummary(t, length_limit) ELSE NoSummary
             abstractive ==
                 CASE summary_type = "extractive" -> NoSummary
                   [] summary_type # "extractive" /\ ai = "ai_ok" ->
                        Summary("ai", t, length_limit)
                   [] summary_type # "extractive" /\ ai = "ai_raised" ->
                        Summary("ai_truncated", t, Min(length_limit \div 5, t.words \div 4))
                   [] OTHER ->
                        IF extractive # NoSummary THEN extractive
                        ELSE Summary("empty", t, 0)
         IN  [extractive |-> extractive, abstractive |-> abstractive]

MultilingualInit ==
    /\ ml_text \in MultilingualTexts
    /\ ml_max_length \in MultilingualMaxLengths
    /\ ml_type \in MultilingualTypes
    /\ ml_ai \in AiStates
    /\ ml_pc = "ready"
    /\ ml_result = [extractive |-> NoSummary, abstractive |-> NoSummary]

MultilingualIdle ==
    /\ ml_text = Text("extracted", 0, 0, 0)
    /\ ml_max_length = 150
    /\ ml_type = "extractive"
    /\ ml_ai = "ai_ok"
    /\ ml_pc = "idle"
    /\ ml_result = [extractive |-> NoSummary, abstractive |-> NoSummary]

\* One call of generate_multilingual_summary with target_language 'en'
GenerateMultilingualSummaryCall ==
    /\ ml_pc = "ready"
    /\ ml_result' = GenerateMultilingualSummary(ml_text, ml_max_length, ml_type, ml_ai)
    /\ ml_pc' = "done"
    /\ UNCHANGED <<lvars, tvars, uvars, gvars, kvars, gtvars, avars, ttsvars, clvars,
                   pdfvars, svcvars, racevars, regvars, getvars, ml_text, ml_max_length,
                   ml_type, ml_ai>>

----------------------------------------------------------------------------
\* get_article and update_article running concurrently on the id of one stored
\* article: each await of a database call is a step of its own

\* The concurrent requests on the id
MaxRacers == 3

Racers == 1..MaxRacers

\* The payload stored at the start
ORIGINAL == 0

RaceInit ==
    /\ race_kind \in [Racers -> {"update", "get"}]
    /\ race_pc = [r \in Racers |-> "start"]
    /\ race_status = [r \in Racers |-> 0]
    /\ race_stored = {ORIGINAL}

RaceIdle ==
    /\ race_kind = [r \in Racers |-> "get"]
    /\ race_pc = [r \in Racers |-> "idle"]
    /\ race_status = [r \in Racers |-> 0]
    /\ race_stored = {ORIGINAL}

race_frame == <<lvars, tvars, uvars, gvars, kvars, gtvars, avars, ttsvars, clvars,
                pdfvars, svcvars, mlvars, regvars, getvars, race_kind>>

RaceEnd(r, status) ==
    /\ race_pc' = [race_pc EXCEPT ![r] = "done"]
    /\ race_status' = [race_status EXCEPT ![r] = status]

RaceGoTo(r, pc) ==
    /\ race_pc' = [race_pc EXCEPT ![r] = pc]
    /\ UNCHANGED race_status

\* get_article: get_article_by_id, 404 when it finds nothing
RaceGetArticle(r) ==
    /\ race_kind[r] = "get"
    /\ race_pc[r] = "start"
    /\ RaceEnd(r, IF race_stored = {} THEN 404 ELSE 200)
    /\ UNCHANGED <<race_frame, race_stored>>

\* update_article: update_one with $set, 404 when matched_count is 0
RaceUpdateOne(r) ==
    /\ race_kind[r] = "update"
    /\ race_pc[r] = "start"
    /\ IF race_stored = {}
       THEN RaceEnd(r, 404) /\ UNCHANGED race_stored
       ELSE RaceGoTo(r, "find") /\ race_stored' = {r}
    /\ UNCHANGED race_frame

\* update_article: get_article_by_id; nothing is re-saved when it finds nothing
RaceFind(r) ==
    /\ race_pc[r] = "find"
    /\ IF race_stored = {} THEN RaceEnd(r, 200) ELSE RaceGoTo(r, "delete")
    /\ UNCHANGED <<race_frame, race_stored>>

\* update_article: delete_one
RaceDeleteOne(r) ==
    /\ race_pc[r] = "delete"
    /\ race_stored' = {}
    /\ RaceGoTo(r, "lookup")
    /\ UNCHANGED race_frame

\* save_article: find_one of the user, for the auto_generate_tags preference
RaceUserLookup(r) ==
    /\ race_pc[r] = "lookup"
    /\ RaceGoTo(r, "insert")
    /\ UNCHANGED <<race_frame, race_stored>>

\* save_article: insert_one of update_doc with the same _id; DuplicateKeyError
\* when a document with that _id is stored, which the handler does not catch
RaceInsertOne(r) ==
    /\ race_pc[r] = "insert"
    /\ IF race_stored = {}
       THEN RaceEnd(r, 200) /\ race_stored' = {r}
       ELSE RaceEnd(r, 500) /\ UNCHANGED race_stored
    /\ UNCHANGED race_frame

----------------------------------------------------------------------------
\* register, oauth_token_exchange and update_me running concurrently: each
\* await of a database call is a step of its own. The users collection has no
\* unique index on email

\* The concurrent requests
MaxSignups == 2

Signups == 1..MaxSignups
Emails == {"a@x", "b@x", "c@x"}
SignupKinds == {"register", "oauth", "update_me"}

\* The two users registered at the start
RegisteredUsers == <<"a@x", "b@x">>

\* The user whose token an update_me request carries
Requester(r) == ((r - 1) % Len(RegisteredUsers)) + 1

UsersInit ==
    /\ reg_users = RegisteredUsers
    /\ reg_kind \in [Signups -> SignupKinds]
    /\ reg_email \in [Signups -> Emails]
    /\ reg_pc = [r \in Signups |-> "start"]
    /\ reg_status = [r \in Signups |-> 0]

UsersIdle ==
    /\ reg_users = <<>>
    /\ reg_kind = [r \in Signups |-> "register"]
    /\ reg_email = [r \in Signups |-> "a@x"]
    /\ reg_pc = [r \in Signups |-> "idle"]
    /\ reg_status = [r \in Signups |-> 0]

reg_frame == <<lvars, tvars, uvars, gvars, kvars, gtvars, avars, ttsvars, clvars,
               pdfvars, svcvars, mlvars, racevars, getvars, reg_kind, reg_email>>

RegEnd(r, status) ==
    /\ reg_pc' = [reg_pc EXCEPT ![r] = "done"]
    /\ reg_status' = [reg_status EXCEPT ![r] = status]

RegGoTo(r, pc) ==
    /\ reg_pc' = [reg_pc EXCEPT ![r] = pc]
    /\ UNCHANGED reg_status

\* users.find_one({"email": email})
EmailFound(email) == \E i \in 1..Len(reg_users) : reg_users[i] = email

\* register: find_one, 400 'Email already registered' when a record is found
RegisterFind(r) ==
    /\ reg_kind[r] = "register"
    /\ reg_pc[r] = "start"
    /\ IF EmailFound(reg_email[r]) THEN RegEnd(r, 400) ELSE RegGoTo(r, "insert")
    /\ UNCHANGED <<reg_frame, reg_users>>

\* register: insert_one(user_doc)
RegisterInsert(r) ==
    /\ reg_kind[r] = "register"
    /\ reg_pc[r] = "insert"
    /\ reg_users' = Append(reg_users, reg_email[r])
    /\ RegEnd(r, 200)
    /\ UNCHANGED reg_frame

\* oauth_token_exchange: find_one; the user found is signed in
OAuthFind(r) ==
    /\ reg_kind[r] = "oauth"
    /\ reg_pc[r] = "start"
    /\ IF EmailFound(reg_email[r]) THEN RegEnd(r, 200) ELSE RegGoTo(r, "insert")
    /\ UNCHANGED <<reg_frame, reg_users>>

\* oauth_token_exchange: insert_one(user_doc) of the new user
OAuthInsert(r) ==
    /\ reg_kind[r] = "oauth"
    /\ reg_pc[r] = "insert"
    /\ reg_users' = Append(reg_users, reg_email[r])
    /\ RegEnd(r, 200)
    /\ UNCHANGED reg_frame

\* update_me: find_one({'email': ..., '_id': {'$ne': own id}}), 400 'Email
\* already in use' when a record is found
UpdateMeFind(r) ==
    /\ reg_kind[r] = "update_me"
    /\ reg_pc[r] = "start"
    /\ IF \E i \in 1..Len(reg_users) : i # Requester(r) /\ reg_users[i] = reg_email[r]
       THEN RegEnd(r, 400)
       ELSE RegGoTo(r, "update")
    /\ UNCHANGED <<reg_frame, reg_users>>

\* update_me: update_one({'_id': own id}, {'$set': update_doc})
UpdateMeUpdate(r) ==
    /\ reg_kind[r] = "update_me"
    /\ reg_pc[r] = "update"
    /\ reg_users' = [reg_users EXCEPT ![Requester(r)] = reg_email[r]]
    /\ RegEnd(r, 200)
    /\ UNCHANGED reg_frame

----------------------------------------------------------------------------
\* get_document (and download_document) with the id of the upload response,
\* right after the upload

\* Whether get_document_by_id finds a document for the id: an ObjectId string
\* (24 characters) is looked up by _id, any other id by the field 'id'; with
\* MongoDB unavailable self.db is None and the AttributeError is caught
GetDocumentById(id) ==
    CASE id = "object_id" -> documents # {}
      [] id = "uuid" -> \E d \in documents : d.id = id
      [] OTHER -> FALSE

\* get_document: 404 when nothing is found; get_storage() returning None
\* raises AttributeError, which nothing catches (500)
GetDocumentStatus(id) ==
    IF "save_document" \notin invoked THEN 500
    ELSE IF GetDocumentById(id) THEN 200 ELSE 404

GetIdle == get_status = 0

GetDocument ==
    /\ up_pc = "done"
    /\ up_response.id # "none"
    /\ get_status = 0
    /\ loop_blocked_by = "none"
    /\ get_status' = GetDocumentStatus(up_response.id)
    /\ UNCHANGED <<lvars, tvars, uvars, gvars, kvars, gtvars, avars, ttsvars, clvars,
                   pdfvars, svcvars, mlvars, racevars, regvars>>

----------------------------------------------------------------------------
\* The event loop and the specifications

\* A handler of another request runs one step on the event loop
OtherRequestStep ==
    /\ loop_blocked_by = "none"
    /\ other_steps < MaxOtherSteps
    /\ other_steps' = other_steps + 1
    /\ UNCHANGED <<loop_blocked_by, tvars, uvars, svars>>

LoopInit ==
    /\ loop_blocked_by = "none"
    /\ other_steps = 0

\* No translate request is in progress
TranslateIdle ==
    /\ text = <<200>>
    /\ tr_pc = "idle"
    /\ tr_stage = GOOGLE
    /\ chunks = <<>>
    /\ translated_chunks = <<>>
    /\ calls = [s \in Stages |-> 0]
    /\ replies = [s \in Stages |-> <<>>]
    /\ attempts = <<>>
    /\ tr_response = NoResponse

\* None of the further calls is in progress
MoreIdle ==
    /\ PdfIdle
    /\ ServicesObjectsIdle
    /\ MultilingualIdle
    /\ RaceIdle
    /\ UsersIdle
    /\ GetIdle

\* No call outside translate_text and upload_document is in progress
ServicesIdle ==
    /\ SummaryIdle
    /\ KeywordsIdle
    /\ TagsIdle
    /\ ArticlesIdle /\ TtsIdle /\ CleanIdle /\ MoreIdle

InitTranslate == LoopInit /\ TranslateInit /\ UploadIdle /\ ServicesIdle

NextTranslate ==
    \/ CallProvider
    \/ GoogleReply
    \/ MyMemoryReply
    \/ LibreTranslateReply
    \/ MyMemoryChunkReply
    \/ OtherRequestStep

SpecTranslate == InitTranslate /\ [][NextTranslate]_vars

InitUpload == LoopInit /\ UploadInit /\ TranslateIdle /\ ServicesIdle

NextUpload ==
    \/ ValidateFileType
    \/ DecodeText
    \/ SubmitExtraction
    \/ WorkerEnds
    \/ Tick
    \/ ExtractionDone
    \/ ExtractionTimeout
    \/ ExtractionExit
    \/ StartSummaries
    \/ ExtractiveDone
    \/ ExtractiveTimeout
    \/ ExtractiveExit
    \/ AbstractiveDone
    \/ AbstractiveTimeout
    \/ TotalTimeout
    \/ AbstractiveExit
    \/ TagDocument
    \/ SaveDocument
    \/ GetDocument
    \/ OtherRequestStep

SpecUpload == InitUpload /\ [][NextUpload]_vars

InitSummary ==
    LoopInit /\ TranslateIdle /\ UploadIdle /\ SummaryInit /\ KeywordsIdle /\ TagsIdle
    /\ ArticlesIdle /\ TtsIdle /\ CleanIdle /\ MoreIdle

NextSummary ==
    \/ GenerateSummaryCall
    \/ OtherRequestStep

SpecSummary == InitSummary /\ [][NextSummary]_vars

InitKeywords ==
    LoopInit /\ TranslateIdle /\ UploadIdle /\ SummaryIdle /\ KeywordsInit /\ TagsIdle
    /\ ArticlesIdle /\ TtsIdle /\ CleanIdle /\ MoreIdle

NextKeywords ==
    \/ KwCheckText
    \/ KwSelectMethod
    \/ KwKeybert
    \/ KwYake
    \/ KwTfidf
    \/ KwFrequency

SpecKeywords == InitKeywords /\ [][NextKeywords]_vars

InitTags ==
    LoopInit /\ TranslateIdle /\ UploadIdle /\ SummaryIdle /\ KeywordsIdle /\ TagsInit
    /\ ArticlesIdle /\ TtsIdle /\ CleanIdle /\ MoreIdle

NextTags ==
    \/ GenerateTagsCall
    \/ UploadTagsStep

SpecTags == InitTags /\ [][NextTags]_vars

InitArticles ==
    LoopInit /\ TranslateIdle /\ UploadIdle /\ SummaryIdle /\ KeywordsIdle /\ TagsIdle
    /\ ArticlesInit /\ TtsIdle /\ CleanIdle /\ MoreIdle

NextArticles ==
    \/ \E u \in UserIds : UpdatePreferences(u)
    \/ \E u \in UserIds : CreateArticle(u)
    \/ \E u \in UserIds : UpdateArticle(u)
    \/ \E u \in UserIds : DeleteArticle(u)
    \/ \E u \in UserIds : DeleteMe(u)

SpecArticles == InitArticles /\ [][NextArticles]_vars

InitTts ==
    LoopInit /\ TranslateIdle /\ UploadIdle /\ SummaryIdle /\ KeywordsIdle /\ TagsIdle
    /\ ArticlesIdle /\ TtsInit /\ CleanIdle /\ MoreIdle

NextTts ==
    \/ TextToSpeech
    \/ SynthesizeCheckText
    \/ SynthesizeGtts
    \/ SynthesizeGttsEnglish
    \/ SynthesizeLastResort

SpecTts == InitTts /\ [][NextTts]_vars

InitClean ==
    LoopInit /\ TranslateIdle /\ UploadIdle /\ SummaryIdle /\ KeywordsIdle /\ TagsIdle
    /\ ArticlesIdle /\ TtsIdle /\ CleanInit /\ MoreIdle

NextClean ==
    \/ CleanCall
    \/ CleanAgain

SpecClean == InitClean /\ [][NextClean]_vars

OlderIdle ==
    /\ LoopInit /\ TranslateIdle /\ UploadIdle
    /\ SummaryIdle /\ KeywordsIdle /\ TagsIdle /\ ArticlesIdle /\ TtsIdle /\ CleanIdle

InitPdf ==
    OlderIdle /\ PdfInit /\ ServicesObjectsIdle /\ MultilingualIdle /\ RaceIdle /\ UsersIdle /\ GetIdle

NextPdf ==
    \/ PdfPrimary
    \/ PdfFallbackInTry
    \/ PdfImportErrorFallback
    \/ PdfExceptionFallback

SpecPdf == InitPdf /\ [][NextPdf]_vars

InitServices ==
    OlderIdle /\ PdfIdle /\ ServicesInit /\ MultilingualIdle /\ RaceIdle /\ UsersIdle /\ GetIdle

NextServices ==
    \/ GetStorage
    \/ GetSummarizerService
    \/ NewKeywordExtractor

SpecServices == InitServices /\ [][NextServices]_vars

InitMultilingual ==
    OlderIdle /\ PdfIdle /\ ServicesObjectsIdle /\ MultilingualInit /\ RaceIdle /\ UsersIdle
    /\ GetIdle

\* Another request may be served before or after the call
NextMultilingual ==
    \/ GenerateMultilingualSummaryCall
    \/ OtherRequestStep

SpecMultilingual == InitMultilingual /\ [][NextMultilingual]_vars

InitRace ==
    OlderIdle /\ PdfIdle /\ ServicesObjectsIdle /\ MultilingualIdle /\ RaceInit /\ UsersIdle /\ GetIdle

NextRace ==
    \/ \E r \in Racers : RaceGetArticle(r)
    \/ \E r \in Racers : RaceUpdateOne(r)
    \/ \E r \in Racers : RaceFind(r)
    \/ \E r \in Racers : RaceDeleteOne(r)
    \/ \E r \in Racers : RaceUserLookup(r)
    \/ \E r \in Racers : RaceInsertOne(r)

SpecRace == InitRace /\ [][NextRace]_vars

InitUsers ==
    OlderIdle /\ PdfIdle /\ ServicesObjectsIdle /\ MultilingualIdle /\ RaceIdle /\ UsersInit
    /\ GetIdle

NextUsers ==
    \/ \E r \in Signups : RegisterFind(r)
    \/ \E r \in Signups : RegisterInsert(r)
    \/ \E r \in Signups : OAuthFind(r)
    \/ \E r \in Signups : OAuthInsert(r)
    \/ \E r \in Signups : UpdateMeFind(r)
    \/ \E r \in Signups : UpdateMeUpdate(r)

SpecUsers == InitUsers /\ [][NextUsers]_vars

----------------------------------------------------------------------------
\* translate_text: what the replies received so far say about each stage


\* The stage ran to its end and produced a non-empty translated_text
StageSucceeded(s) ==
    IF IsChunked(s, text)
    THEN Len(replies[s]) = Len(StageChunks(s, text)) /\ "exception" \notin Range(replies[s])
    ELSE replies[s] = <<"ok">>

\* The stage ended without a translated_text: a call raised, or the single
\* call of a whole-text stage came back without a translation
StageFailed(s) ==
    IF IsChunked(s, text)
    THEN "exception" \in Range(replies[s])
    ELSE replies[s] # <<>> /\ replies[s] # <<"ok">>

FixedOrder == <<GOOGLE, MYMEMORY, LIBRETRANSLATE, MYMEMORY_CHUNKS>>

\* C1: once a stage has produced a non-empty translation the request is over
\* with HTTP 200 and exactly that stage's translation, and no later stage has
\* been called; for Google, every other provider's call count is zero.
C1_FirstSuccessReturns ==
    \A s \in Stages :
        StageSucceeded(s) =>
            /\ tr_pc = "done"
            /\ tr_response.status = 200
            /\ Len(tr_response.translated_text) = Len(StageChunks(s, text))
            /\ \A i \in DOMAIN tr_response.translated_text :
                   tr_response.translated_text[i].by = s
            /\ \A later \in Stages : later > s => calls[later] = 0

C1_Witness ==
    /\ tr_pc = "done"
    /\ replies[GOOGLE] = <<"ok">>
    /\ tr_response.status = 200

\* C2 as written: the stages are tried in the fixed order, and any call that
\* raises or comes back empty makes the handler try the next stage.
C2_EmptyResponseAdvances ==
    /\ attempts = SubSeq(FixedOrder, 1, Len(attempts))
    /\ \A s \in Stages \ {MYMEMORY_CHUNKS} :
          (\E i \in DOMAIN replies[s] : replies[s][i] \in {"exception", "empty"})
              => \E j \in DOMAIN attempts : attempts[j] = s + 1

\* C2 (amended): the stages are tried in the fixed order, each at most once;
\* a failed stage (a call raised, or a whole-text call came back without a
\* translation) is followed by the next stage and gets no further call.
C2_FixedOrderNoRetry ==
    /\ attempts = SubSeq(FixedOrder, 1, Len(attempts))
    /\ \A s \in Stages :
          StageFailed(s) =>
              /\ calls[s] = Len(replies[s])
              /\ s # MYMEMORY_CHUNKS => \E j \in DOMAIN attempts : attempts[j] = s + 1
              /\ s = MYMEMORY_CHUNKS => tr_pc = "done"

C2_Witness ==
    /\ tr_pc = "done"
    /\ attempts = FixedOrder
    /\ \A s \in Stages : StageFailed(s)

\* C3: when all four stages have failed the client sees HTTP 503 with detail
\* 'All translation services unavailable'.
C3_AllFailedIs503 ==
    (tr_pc = "done" /\ \A s \in Stages : StageFailed(s)) =>
        /\ tr_response.status = 503
        /\ tr_response.detail = "All translation services unavailable"

----------------------------------------------------------------------------
\* upload_document: what the requests must satisfy

SummarizerCalls == {"generate_summary", "generate_multilingual_summary"}
ExitStates == {"extract_exit", "ext_exit", "abs_exit"}
ExtractiveFailed ==
    events \cap {"summarizer_unavailable", "extractive_raised", "extractive_timeout"} # {}
AbstractiveFailed ==
    events \cap {"abstractive_raised", "abstractive_timeout", "ai_total_timeout"} # {}

\* C4: an upload with an unsupported extension is answered with a 400-class
\* status, and nothing (extraction, summarizer, keywords, storage) is invoked.
C4_UnsupportedIs400 ==
    (up_pc = "done" /\ file_ext \notin allowed_types) =>
        /\ up_response.status \in 400..499
        /\ invoked = {}

\* C5: a .txt upload of fewer than 50 characters is classified as too short
\* and the summarizer service is not invoked for it.
C5_ShortTxtNotSummarized ==
    (file_ext = ".txt" /\ file_text.chars < MIN_TEXT_CHARS) =>
        /\ invoked \cap SummarizerCalls = {}
        /\ up_pc = "done" => "content_too_short" \in events

\* C6: while a blocking call of a request is running (an offloaded call, also
\* after its timeout, or a translation HTTP call) the event-loop thread is not
\* held by it, so the handlers of other requests can take their next step.
C6_EventLoopNeverBlocked ==
    (worker.state = "running" \/ tr_pc = "calling") => loop_blocked_by = "none"

\* C7: after a timeout the handler has abandoned the future: it never waits
\* for the worker, whose call may still be running, before it responds.
C7_TimeoutAbandonsWorker ==
    ~(up_pc \in ExitStates /\ worker.state = "running")

\* C8: an upload whose extraction timed out ends with an error response, with
\* no summary generated and no document saved.
C8_ExtractionTimeoutFailsUpload ==
    (up_pc = "done" /\ "extraction_timeout" \in events) =>
        /\ up_response.error # "none"
        /\ invoked \cap SummarizerCalls = {}
        /\ extractive_summary = NoSummary
        /\ documents = {}

PdfExtractionFailed ==
    file_ext = ".pdf" /\ events \cap {"extraction_raised", "extraction_short"} # {}

\* C9 as written: after a non-timeout extraction failure of a PDF the upload
\* always ends with a non-error response.
C9_PdfFailureNeverErrors ==
    (PdfExtractionFailed /\ up_pc = "done") => up_response.error = "none"

\* C9 (amended): after a non-timeout extraction failure of a PDF the text is
\* the placeholder paragraph, and the upload goes on through summarization,
\* tagging and the save; its response is an error only when the save timed out.
C9_PdfFailureBecomesPlaceholder ==
    PdfExtractionFailed =>
        /\ text_content = Placeholder(".pdf")
        /\ up_pc = "done" =>
              /\ extractive_summary.src = Placeholder(".pdf")
              /\ "extract_keywords" \in invoked
              /\ tags # <<>>
              /\ up_response.error # "none" <=> "save_timeout" \in events
              /\ up_response.error = "none" => up_response.extractive = extractive_summary

C9_Witness ==
    /\ PdfExtractionFailed
    /\ "extraction_short" \in events
    /\ up_pc = "done"
    /\ up_response.error = "none"
    /\ "save_document" \in invoked

----------------------------------------------------------------------------
\* generate_summary: the extractive target

\* C11: for a source of 10 words or more and a percentage in 10..100, the
\* extractive target word count is no smaller than the target of any smaller
\* percentage and never exceeds 80% of the source word count
C11_TargetMonotoneAndCapped ==
    (gs_pc = "done" /\ gs_type = "extractive" /\ gs_words >= BRIEF_WORDS) =>
        /\ gs_target * 5 <= gs_words * 4
        /\ \A q \in Percentages :
              q <= gs_length => TargetWords(q, gs_words) <= gs_target

\* A call where the cap applies at the given percentage but not at a smaller one
C11_Witness ==
    /\ gs_pc = "done" /\ gs_type = "extractive" /\ gs_words = 500
    /\ gs_length = 57
    /\ gs_target = 400
    /\ TargetWords(10, gs_words) = 120

----------------------------------------------------------------------------
\* upload_document: the length of the extractive summary

\* len(summary.split()) for the summaries whose words the text determines:
\* the text itself, its first words, or nothing
WordsKnown(summary) == summary.kind \in {"empty", "text", "text_stripped", "truncated"}
SummaryWords(summary) ==
    CASE summary.kind \in {"text", "text_stripped"} -> summary.src.words
      [] summary.kind = "truncated" -> summary.param
      [] OTHER -> 0

\* C12: the extractive summary of a non-error plain-text upload has no more
\* than 80% of the words of the source and no more than the linear target
\* 50 + p/100 * 700 allows, and the tags of the response are not empty
C12_ExtractiveLengthAndTags ==
    (up_pc = "done" /\ file_ext = ".txt" /\ up_response.error = "none"
        /\ text_content.words >= BRIEF_WORDS) =>
        /\ up_response.tags # <<>>
        /\ WordsKnown(up_response.extractive) =>
              /\ SummaryWords(up_response.extractive) * 5 <= text_content.words * 4
              /\ SummaryWords(up_response.extractive)
                    <= LinearTargetWords(summary_length)

----------------------------------------------------------------------------
\* KeywordExtractor

\* C13: extract_keywords returns a non-empty list for every text of at least
\* 10 non-blank characters, whichever libraries are there and whether or not
\* the selected method fails
C13_KeywordsNeverEmpty ==
    (kw_pc = "done" /\ kw_text.chars >= MIN_KEYWORD_TEXT) => kw_result > 0

----------------------------------------------------------------------------
\* Tags

NoDuplicates(seq) == Cardinality(Range(seq)) = Len(seq)

\* What the filename and the business-keyword scan yield
FoundTags == Range(tg_stem \o ExtTag(tg_ext)) \cup Range(tg_business)

\* The tags of the upload are not empty, hold no tag twice and are eight at most
UploadTagsBounded ==
    tg_pc = "done" =>
        /\ tg_tags # <<>>
        /\ NoDuplicates(tg_tags)
        /\ Len(tg_tags) <= MAX_UPLOAD_TAGS

\* generate_tags returns between one and five tags
GeneratedTagsBounded ==
    tg_pc \in {"generated", "done"} =>
        /\ Len(tg_generated) \in 1..MAX_GENERATED_TAGS
        /\ NoDuplicates(tg_generated)

\* C14 as stated: the upload's tags are non-empty, distinct and at most 8;
\* generate_tags returns 1 to 5 tags, and ['Document', 'Analysis'] exactly
\* when neither the filename nor the business-keyword scan yields a tag
C14_DefaultTagsExactlyWhenNothingFound ==
    /\ UploadTagsBounded
    /\ GeneratedTagsBounded
    /\ tg_pc \in {"generated", "done"} =>
          (tg_generated = DefaultTags <=> FoundTags = {})

\* C14, amended: the upload's tags are non-empty, distinct and at most 8;
\* generate_tags returns 1 to 5 distinct tags: ['Document', 'Analysis'] when
\* nothing is found, and tags among those found otherwise
C14_TagsBoundedDefaultWhenNothingFound ==
    /\ UploadTagsBounded
    /\ GeneratedTagsBounded
    /\ tg_pc \in {"generated", "done"} =>
          /\ FoundTags = {} => tg_generated = DefaultTags
          /\ FoundTags # {} => Range(tg_generated) \subseteq FoundTags

\* An upload whose keywords and filename together yield ten tags, cut to eight
C14_Witness ==
    /\ tg_pc = "done"
    /\ ~tg_raised
    /\ Len(tg_keywords) > MAX_AI_TAGS
    /\ Len(tg_generated) = MAX_GENERATED_TAGS
    /\ Len(tg_tags) = MAX_UPLOAD_TAGS

----------------------------------------------------------------------------
\* Users and articles

\* C15: a saved article whose text holds keywords has an empty keywords list
\* exactly when, at save time, the record of its owner existed with
\* preferences.auto_generate_tags false (and was read)
C15_KeywordsEmptyIffOwnerOptedOut ==
    \A a \in ArticleIds :
        (articles[a].present /\ articles[a].text_keywords > 0) =>
            (articles[a].keywords = 0 <=> articles[a].opted_out)

\* C16: once delete_me of a user has completed, the user is gone and so is
\* every article the user created and nobody else updated
C16_DeleteMeRemovesArticles ==
    \A u \in deleted_users :
        /\ ~users[u].exists
        /\ \A a \in ArticleIds :
              (articles[a].present /\ articles[a].updated_by \subseteq {u}) =>
                  articles[a].creator # u

----------------------------------------------------------------------------
\* Text to speech

Failed(i) == tts_attempts[i].outcome = "failed"

\* C17: when synthesize has ended and the attempt in the requested language
\* failed: for a language other than 'en' English was attempted exactly once,
\* and the call raised if that attempt failed too; for 'en' the call raised
\* with no further attempt
C17_EnglishFallbackOnce ==
    (tts_entry = "service" /\ tts_pc = "done" /\ tts_attempts # <<>> /\ Failed(1)) =>
        IF tts_lang # "en"
        THEN /\ Len(tts_attempts) = 2
             /\ tts_attempts[2].lang = "en"
             /\ Failed(2) => tts_result = "Exception"
        ELSE /\ Len(tts_attempts) = 1
             /\ tts_result = "Exception"

\* C18: the endpoint answers a blank text with status 400 and attempts no
\* synthesis
C18_BlankTextIs400 ==
    (tts_entry = "endpoint" /\ tts_pc = "done" /\ IsBlank(tts_text)) =>
        /\ tts_response = 400
        /\ tts_attempts = <<>>

----------------------------------------------------------------------------
\* translate_text: the size of the chunks

ChunkLimit(stage) ==
    IF stage = LIBRETRANSLATE THEN LIBRE_CHUNK_SIZE ELSE MYMEMORY_CHUNK_SIZE

\* C19: every chunk a chunking stage sends to its provider is within the
\* limit of the stage: 1500 characters for LibreTranslate, 400 for the final
\* MyMemory stage
C19_ChunksWithinLimit ==
    (tr_pc = "calling" /\ IsChunked(tr_stage, text)) =>
        Head(chunks) <= ChunkLimit(tr_stage)

\* C20: the text cleaner is idempotent: applying clean_extracted_text,
\* basic_text_cleaning or improve_text_formatting to its own output changes
\* nothing, clean(clean(t)) = clean(t)
C20_CleanIdempotent ==
    cl_pc = "twice" => cl_twice = cl_once

----------------------------------------------------------------------------
\* C21: every upload that ends without an error summarized and stored the
\* output of the text cleaner: the text passed on by the extraction stage went
\* through clean_extracted_text, whatever the format of the file
C21_SummarizedTextIsCleaned ==
    (up_pc = "done" /\ up_response.error = "none" /\ up_response.status = 200)
        => text_content.kind = "cleaned"

----------------------------------------------------------------------------
\* C22: in one call of extract_pdf_text PyMuPDF is run first, PyPDF2 only
\* after PyMuPDF was missing, raised or read fewer than five words, and each
\* of the two is run at most once
C22_EachTierAtMostOnce ==
    /\ pdf_attempts # <<>> => pdf_attempts[1] = "PyMuPDF"
    /\ \A i, j \in 1..Len(pdf_attempts) : pdf_attempts[i] = pdf_attempts[j] => i = j
    /\ (\E i \in 1..Len(pdf_attempts) : pdf_attempts[i] = "PyPDF2")
          => (pdf_fitz.kind \in ExtractorOutcomes \/ pdf_fitz.words < MIN_PDF_WORDS)

----------------------------------------------------------------------------
\* C23: over any sequence of requests each service object the document routes
\* use (storage, summarizer, keyword extractor) is constructed at most once
C23_ServicesConstructedOnce ==
    \A s \in ServiceNames : svc_built[s] <= 1

----------------------------------------------------------------------------
\* C24: with method 'auto' extract_keywords runs the first available of
\* KeyBERT, YAKE, TF-IDF, frequency, and whenever the method that ran failed
\* it returns what the frequency method gives for the same text and num_keywords
C24_FailedMethodFallsBackToFrequency ==
    kw_pc = "done" /\ kw_called # {} =>
        /\ kw_failed => kw_result = ExtractFrequency(kw_text, kw_num)
        /\ \/ kw_method # AutoMethod(kw_libs)
           \/ kw_method \in kw_called

----------------------------------------------------------------------------
\* C25: for a text that is not blank and a summary_type that asks for an
\* abstractive summary, when the AI summarizer is unavailable or raises, the
\* abstractive_summary returned is generate_summary(text, max_length)
C25_AbstractiveFallsBackToExtractive ==
    (/\ ml_pc = "done"
     /\ ml_text.chars > 0
     /\ ml_type \in {"abstractive", "both"}
     /\ ml_ai \in {"ai_raised", "ai_unavailable"})
        => ml_result.abstractive = GenerateSummary(ml_text, ml_max_length)

----------------------------------------------------------------------------
\* C26: update_article changes an article only when the requester is its
\* owner: every user who has updated a stored article is the user who created
\* it, whose id create_article stored as its owner_id
C26_OnlyOwnerUpdates ==
    \A a \in ArticleIds :
        articles[a].present => articles[a].updated_by \subseteq {articles[a].creator}

\* C27: update_article leaves the owner_id of the article as create_article
\* set it, so that my_articles of its owner still finds the article
C27_UpdateKeepsOwnerId ==
    \A a \in ArticleIds :
        (articles[a].present /\ articles[a].updated_by # {}) =>
            articles[a].owner_id = articles[a].creator

----------------------------------------------------------------------------
\* C28: with no delete_article, every get_article and update_article on a
\* stored article ends with 200 whatever the interleaving of their database
\* steps, and once all have ended the article is stored, holding the payload
\* of one of the updates (the original payload when there was none)
C28_ConcurrentRequestsSucceed ==
    /\ \A r \in Racers : race_status[r] \in {0, 200}
    /\ (\A r \in Racers : race_pc[r] = "done") =>
          /\ Cardinality(race_stored) = 1
          /\ \/ race_stored \subseteq {r \in Racers : race_kind[r] = "update"}
             \/ \A r \in Racers : race_kind[r] = "get"

----------------------------------------------------------------------------
\* C29: after any interleaving of register, OAuth sign-in and update_me
\* requests the users collection holds at most one record per email address
C29_OneUserPerEmail ==
    \A i, j \in 1..Len(reg_users) : reg_users[i] = reg_users[j] => i = j

----------------------------------------------------------------------------
\* C30: the id of every non-error upload response identifies a stored
\* document: the get_document that follows with that id returns the document
\* (200), whatever the outcome of the save
C30_ResponseIdIsStored ==
    get_status \in {0, 200}

====
